---- MODULE Spec2Model ----
(***************************************************************************)
(* Verification model of vshadersystem: the .vshbin codec, the .vshlib     *)
(* container, the variant hash (build side and runtime side), the build    *)
(* driver with its content-addressed cache, the atomic file writer and     *)
(* the cook loop of vshaderc.                                              *)
(*                                                                         *)
(* Byte strings are sequences of 0..255.  Strings are sequences of         *)
(* character codes.  Offsets are 0-based as in the C++ code; buf[p+1] is   *)
(* the byte at offset p.  A reader returns [ok, v, p]; p = -1 marks a      *)
(* failed read, and every reader fails on a failed position, so a chain    *)
(* of reads fails as soon as one of them does (the early returns).         *)
(***************************************************************************)
EXTENDS Integers, Sequences, FiniteSets, TLC

\* ------------------------------------------------------------------------
\* State.  Each specification drives one group of variables and leaves the
\* other groups at their idle values.
\* ------------------------------------------------------------------------
VARIABLES
    \* SpecBin: a ShaderBinary, its image on disk, the result of reading it
    bin, image, imgHash, imgWords, rd, binpc,
    \* SpecLib: write_vslib's arguments, the output path, the library read back
    inEntries, kwIn, disk, disk0, sorted, wparts, wres, lib, ext, libpc,
    \* SpecVar: the build-side inputs, the values of the constraint context of
    \* a cook run, the build-side result, the runtime VariantKey
    kwList, vOpt, vEngineKw, srcHash, ctxValues, buildSide, vkey, toSet, keySet, rt, vpc,
    \* SpecBuild: the last request and its result, the cache directory, the
    \* request that wrote each cache file, the number of builds made
    lastReq, lastRes, cacheFiles, cacheBy, builds,
    \* SpecFile: the names and the files of a directory, the platform's rename,
    \* each write_vshbin_file call, the read_vshbin_file call
    fsPaths, fsInodes, renameReplaces, writer, reader,
    \* SpecCook: the [shader] blocks of the manifest file, the flattened
    \* tasks, the options and the engine keywords of a cook run; the locals of cmd_cook; what each variant came to; the
    \* output library and the exit code
    manifest, tasks, skipInvalid, cookKw, taskIndex, cookEntries, seen, pruned,
    firstError, cookLog, outLib, exitCode, cookpc,
    \* SpecRead: a binary, its image with a defect, the result of reading it
    rdBin, rdImage, rdDefect, rdRes, rdpc,
    \* SpecMat: a reflection, a parsed metadata, the result of the synthesis
    matRefl, matMeta, matRes, matpc,
    \* SpecExpr: an expression of the grammar, what follows it, whether it
    \* is wrapped in only_if( ), its text, the context, the result, the
    \* result of a second evaluation
    exprTree, exprTail, exprWrapped, exprText, exprCtx, exprRes, exprAgain, exprpc,
    \* SpecMeta: the lines of a source, its text, the result of parsing it
    metaLines, metaText, metaRes, metapc,
    \* SpecLibRead: a library file with fields overwritten, how many were,
    \* the result of reading it, the result of a lookup in it
    lrFile, lrPatches, lrRes, lrExt, lrpc

binVars == <<bin, image, imgHash, imgWords, rd, binpc>>
libVars == <<inEntries, kwIn, disk, disk0, sorted, wparts, wres, lib, ext, libpc>>
varVars == <<kwList, vOpt, vEngineKw, srcHash, ctxValues, buildSide, vkey, toSet, keySet, rt,
            vpc>>
bldVars == <<lastReq, lastRes, cacheFiles, cacheBy, builds>>
fileVars == <<fsPaths, fsInodes, renameReplaces, writer, reader>>
cookVars == <<manifest, tasks, skipInvalid, cookKw, taskIndex, cookEntries, seen, pruned,
              firstError, cookLog, outLib, exitCode, cookpc>>
rdVars == <<rdBin, rdImage, rdDefect, rdRes, rdpc>>
matVars == <<matRefl, matMeta, matRes, matpc>>
exprVars == <<exprTree, exprTail, exprWrapped, exprText, exprCtx, exprRes, exprAgain,
             exprpc>>
metaVars == <<metaLines, metaText, metaRes, metapc>>
lrVars == <<lrFile, lrPatches, lrRes, lrExt, lrpc>>

vars == <<binVars, libVars, varVars, bldVars, fileVars, cookVars, rdVars, matVars,
          exprVars, metaVars, lrVars>>

\* Each specification drives its own group g of variables; the variables of
\* the other groups stay at "idle".
Idle(g) ==
    /\ IF g = "bin" THEN TRUE
       ELSE /\ bin = "idle" /\ image = "idle" /\ imgHash = "idle"
            /\ imgWords = "idle" /\ rd = "idle" /\ binpc = "idle"
    /\ IF g = "lib" THEN TRUE
       ELSE /\ inEntries = "idle" /\ kwIn = "idle" /\ disk = "idle" /\ disk0 = "idle"
            /\ sorted = "idle" /\ wparts = "idle" /\ wres = "idle" /\ lib = "idle"
            /\ ext = "idle" /\ libpc = "idle"
    /\ IF g = "var" THEN TRUE
       ELSE /\ kwList = "idle" /\ vOpt = "idle" /\ vEngineKw = "idle"
            /\ srcHash = "idle" /\ ctxValues = "idle" /\ buildSide = "idle" /\ vkey = "idle"
            /\ toSet = "idle" /\ keySet = "idle" /\ rt = "idle" /\ vpc = "idle"
    /\ IF g = "bld" THEN TRUE
       ELSE /\ lastReq = "idle" /\ lastRes = "idle" /\ cacheFiles = "idle"
            /\ cacheBy = "idle" /\ builds = "idle"
    /\ IF g = "file" THEN TRUE
       ELSE /\ fsPaths = "idle" /\ fsInodes = "idle" /\ renameReplaces = "idle"
            /\ writer = "idle" /\ reader = "idle"
    /\ IF g = "cook" THEN TRUE
       ELSE /\ manifest = "idle" /\ tasks = "idle" /\ skipInvalid = "idle"
            /\ cookKw = "idle"
            /\ taskIndex = "idle" /\ cookEntries = "idle" /\ seen = "idle"
            /\ pruned = "idle" /\ firstError = "idle" /\ cookLog = "idle"
            /\ outLib = "idle" /\ exitCode = "idle" /\ cookpc = "idle"
    /\ IF g = "rd" THEN TRUE
       ELSE /\ rdBin = "idle" /\ rdImage = "idle" /\ rdDefect = "idle"
            /\ rdRes = "idle" /\ rdpc = "idle"
    /\ IF g = "mat" THEN TRUE
       ELSE /\ matRefl = "idle" /\ matMeta = "idle" /\ matRes = "idle" /\ matpc = "idle"
    /\ IF g = "expr" THEN TRUE
       ELSE /\ exprTree = "idle" /\ exprTail = "idle" /\ exprWrapped = "idle"
            /\ exprText = "idle" /\ exprCtx = "idle" /\ exprRes = "idle" /\ exprAgain = "idle"
            /\ exprpc = "idle"
    /\ IF g = "meta" THEN TRUE
       ELSE /\ metaLines = "idle" /\ metaText = "idle" /\ metaRes = "idle"
            /\ metapc = "idle"
    /\ IF g = "lr" THEN TRUE
       ELSE /\ lrFile = "idle" /\ lrPatches = "idle" /\ lrRes = "idle"
            /\ lrExt = "idle" /\ lrpc = "idle"

\* ------------------------------------------------------------------------
\* Bounds of the model
\* ------------------------------------------------------------------------
\* Range of the stand-in for XXH64 (the values a "64-bit" hash can take).
HashRange == 251

\* ------------------------------------------------------------------------
\* Generic helpers
\* ------------------------------------------------------------------------
RECURSIVE Flatten(_)
Flatten(ss) == IF ss = <<>> THEN <<>> ELSE Head(ss) \o Flatten(Tail(ss))

\* All orderings of the elements of a finite set.
RECURSIVE Perms(_)
Perms(S) == IF S = {} THEN {<<>>}
            ELSE UNION {{<<x>> \o p : p \in Perms(S \ {x})} : x \in S}

\* ------------------------------------------------------------------------
\* hash.hpp: XXH64 is an external library.  It is modelled by a seeded
\* polynomial hash over the bytes with a small range: deterministic,
\* seed-chained, and (like any hash) not injective.
\* ------------------------------------------------------------------------
\* The bytes lo..hi of data as the map h |-> (a * h + b) % HashRange that
\* folding h := h * 31 + byte + 1 over them applies, as <<a, b>>.
RECURSIVE HashFold(_, _, _)
HashFold(data, lo, hi) ==
    IF lo > hi THEN <<1, 0>>
    ELSE IF lo = hi THEN <<31, (data[lo] + 1) % HashRange>>
    ELSE LET mid == (lo + hi) \div 2
             l   == HashFold(data, lo, mid)
             r   == HashFold(data, mid + 1, hi)
         IN  <<(l[1] * r[1]) % HashRange, (r[1] * l[2] + r[2]) % HashRange>>

xxhash64(data, seed) ==
    LET m == HashFold(data, 1, Len(data))
    IN  (m[1] * ((seed + 17) % HashRange) + m[2]) % HashRange

\* ------------------------------------------------------------------------
\* binary.cpp: little-endian writers and readers
\* ------------------------------------------------------------------------
\* The n low bytes of v, least significant first.
RECURSIVE LE(_, _)
LE(v, n) == IF n = 0 THEN <<>> ELSE <<v % 256>> \o LE(v \div 256, n - 1)

RECURSIVE FromLE(_)
FromLE(b) == IF b = <<>> THEN 0 ELSE Head(b) + 256 * FromLE(Tail(b))

write_u8(v)  == <<v % 256>>
write_u32(v) == LE(v, 4)
write_u64(v) == LE(v, 8)

Fail == [ok |-> FALSE, v |-> 0, p |-> -1]

read_bytes(buf, p, n) ==
    IF p < 0 \/ p + n > Len(buf) THEN Fail
    ELSE [ok |-> TRUE, v |-> SubSeq(buf, p + 1, p + n), p |-> p + n]

\* read_u8, read_u32, read_u64: n bytes, little-endian.
read_uN(buf, p, n) ==
    LET r == read_bytes(buf, p, n)
    IN  IF r.ok THEN [r EXCEPT !.v = FromLE(r.v)] ELSE Fail

write_string(s) == write_u32(Len(s)) \o s

\* The reads of one record, in order.  A positive width n is read_u8,
\* read_u32 or read_u64 (n bytes, little-endian); 0 is read_string (a u32
\* length, then that many bytes); a negative width -n is a memcpy of n
\* bytes.  cur is [ok, p, v]: the position and the values read so far.  The
\* first read that runs past the end fails the record.
RECURSIVE ReadFields(_, _, _)
ReadFields(buf, cur, layout) ==
    IF ~cur.ok \/ layout = <<>> THEN cur
    ELSE LET w == Head(layout)
             n == IF w = 0 THEN read_uN(buf, cur.p, 4)
                  ELSE [ok |-> TRUE, v |-> IF w < 0 THEN -w ELSE w, p |-> cur.p]
             r == read_bytes(buf, n.p, n.v)
         IN  ReadFields(buf,
                        IF ~r.ok THEN Fail
                        ELSE [ok |-> TRUE, p |-> r.p,
                              v |-> Append(cur.v, IF w > 0 THEN FromLE(r.v) ELSE r.v)],
                        Tail(layout))

\* A record that starts at p, nothing read yet.
At(p) == [ok |-> TRUE, p |-> p, v |-> <<>>]

kMagic   == <<86, 83, 72, 66, 73, 78, 0, 0>>
kVersion == 2

\* xxhash64_words hashes the words as they lie in memory (little-endian).
xxhash64_words(words) ==
    xxhash64(Flatten([i \in 1..Len(words) |-> write_u32(words[i])]), 0)

\* The memcpy of an SPRV payload into size / 4 words.
BytesToWords(b) == [i \in 1..(Len(b) \div 4) |-> FromLE(SubSeq(b, 4 * i - 3, 4 * i))]

\* ------------------------------------------------------------------------
\* types.hpp: default-constructed records.  Floats and doubles are kept as
\* their bit patterns (4 and 8 bytes); the codec copies them with memcpy.
\* ------------------------------------------------------------------------
Zeros(n) == [i \in 1..n |-> 0]

DefaultReflection ==
    [descriptors |-> <<>>, blocks |-> <<>>, hasLocalSize |-> FALSE,
     localSizeX |-> 1, localSizeY |-> 1, localSizeZ |-> 1]

\* materialBlockName = "Material"; the render state of types.hpp:188-230.
DefaultMaterialDescription ==
    [materialBlockName |-> <<77, 97, 116, 101, 114, 105, 97, 108>>,
     materialParamSize |-> 0, params |-> <<>>, textures |-> <<>>,
     renderState |->
        [depthTest |-> TRUE, depthWrite |-> TRUE, depthFunc |-> 3, cull |-> 1,
         blendEnable |-> FALSE, srcColor |-> 1, dstColor |-> 0, colorOp |-> 0,
         srcAlpha |-> 1, dstAlpha |-> 0, alphaOp |-> 0, colorMask |-> 15,
         alphaToCoverage |-> FALSE,
         depthBiasFactor |-> Zeros(4), depthBiasUnits |-> Zeros(4)]]

B2I(b) == IF b THEN 1 ELSE 0

\* ------------------------------------------------------------------------
\* binary.cpp: REFL chunk
\* ------------------------------------------------------------------------
serialize_reflection(r) ==
    LET SerDescriptor(d) ==
            write_string(d.name) \o write_u32(d.set) \o write_u32(d.binding)
            \o write_u32(d.count) \o write_u8(d.kind) \o write_u32(d.stageFlags)
            \o write_u8(B2I(d.runtimeSized))
        SerMember(m) == write_string(m.name) \o write_u32(m.offset) \o write_u32(m.size)
        SerBlock(b) ==
            write_string(b.name) \o write_u32(b.set) \o write_u32(b.binding)
            \o write_u32(b.size) \o write_u8(B2I(b.isPushConstant))
            \o write_u32(b.stageFlags) \o write_u32(Len(b.members))
            \o Flatten([i \in 1..Len(b.members) |-> SerMember(b.members[i])])
    IN write_u32(Len(r.descriptors))
        \o Flatten([i \in 1..Len(r.descriptors) |-> SerDescriptor(r.descriptors[i])])
        \o write_u32(Len(r.blocks))
        \o Flatten([i \in 1..Len(r.blocks) |-> SerBlock(r.blocks[i])])

\* Reads n items with the reader Item, as the counted loops do.
RECURSIVE DesItems(_, _, _, _, _)
DesItems(Item(_, _), buf, p, n, acc) ==
    IF p < 0 THEN Fail
    ELSE IF n = 0 THEN [ok |-> TRUE, v |-> acc, p |-> p]
    ELSE LET r == Item(buf, p)
         IN  IF ~r.ok THEN Fail
             ELSE DesItems(Item, buf, r.p, n - 1, Append(acc, r.v))

\* A u32 count followed by that many items.
DesList(Item(_, _), buf, p) ==
    LET n == read_uN(buf, p, 4)
    IN  DesItems(Item, buf, n.p, n.v, <<>>)

deserialize_reflection(payload) ==
    LET Descriptor(f) ==
            IF ~f.ok THEN Fail
            ELSE [ok |-> TRUE, p |-> f.p,
                  v |-> [name |-> f.v[1], set |-> f.v[2], binding |-> f.v[3],
                         count |-> f.v[4], kind |-> f.v[5], stageFlags |-> f.v[6],
                         runtimeSized |-> (f.v[7] # 0)]]
        \* name, set, binding, count, kind (u8), stageFlags, runtimeSized (u8)
        DesDescriptor(buf, p) == Descriptor(ReadFields(buf, At(p), <<0, 4, 4, 4, 1, 4, 1>>))
        \* A member read from the file keeps the default-constructed type (eFloat).
        Member(f) ==
            IF ~f.ok THEN Fail
            ELSE [ok |-> TRUE, p |-> f.p,
                  v |-> [name |-> f.v[1], offset |-> f.v[2], size |-> f.v[3], type |-> 0]]
        \* name, offset, size
        DesMember(buf, p) == Member(ReadFields(buf, At(p), <<0, 4, 4>>))
        Block(f, ms) ==
            IF ~ms.ok THEN Fail
            ELSE [ok |-> TRUE, p |-> ms.p,
                  v |-> [name |-> f.v[1], set |-> f.v[2], binding |-> f.v[3],
                         size |-> f.v[4], isPushConstant |-> (f.v[5] # 0),
                         stageFlags |-> f.v[6], members |-> ms.v]]
        \* name, set, binding, size, isPushConstant (u8), stageFlags, members
        DesBlock(buf, p) ==
            LET f == ReadFields(buf, At(p), <<0, 4, 4, 4, 1, 4>>)
            IN  Block(f, DesList(DesMember, buf, f.p))
        \* The reflection once both lists are read; trailing bytes are an error.
        Reflection(ds, bs) ==
            IF ~bs.ok \/ bs.p # Len(payload) THEN Fail
            ELSE [ok |-> TRUE, p |-> bs.p,
                  v |-> [DefaultReflection EXCEPT !.descriptors = ds.v, !.blocks = bs.v]]
        descriptors == DesList(DesDescriptor, payload, 0)
    IN  Reflection(descriptors, DesList(DesBlock, payload, descriptors.p))

\* ------------------------------------------------------------------------
\* binary.cpp: MDES chunk
\* ------------------------------------------------------------------------
serialize_mdesc(m) ==
    LET SerRenderState(rs) ==
            write_u8(B2I(rs.depthTest)) \o write_u8(B2I(rs.depthWrite)) \o write_u8(rs.depthFunc)
            \o write_u8(rs.cull) \o write_u8(B2I(rs.blendEnable))
            \o write_u8(rs.srcColor) \o write_u8(rs.dstColor) \o write_u8(rs.colorOp)
            \o write_u8(rs.srcAlpha) \o write_u8(rs.dstAlpha) \o write_u8(rs.alphaOp)
            \o write_u8(rs.colorMask) \o write_u8(B2I(rs.alphaToCoverage))
            \o rs.depthBiasFactor \o rs.depthBiasUnits
        SerParam(pd) ==
            write_string(pd.name) \o write_u8(pd.type) \o write_u32(pd.offset)
            \o write_u32(pd.size) \o write_u32(pd.semantic)
            \o write_u8(B2I(pd.hasDefault))
            \o (IF pd.hasDefault
                THEN write_u8(pd.defaultValue.type) \o pd.defaultValue.valueBuffer
                ELSE <<>>)
            \o write_u8(B2I(pd.hasRange))
            \o (IF pd.hasRange THEN pd.range.min \o pd.range.max ELSE <<>>)
        SerTexture(t) ==
            write_string(t.name) \o write_u8(t.type) \o write_u32(t.set)
            \o write_u32(t.binding) \o write_u32(t.count) \o write_u32(t.semantic)
    IN write_string(m.materialBlockName) \o write_u32(m.materialParamSize)
    \o SerRenderState(m.renderState)
    \o write_u32(Len(m.params))
    \o Flatten([i \in 1..Len(m.params) |-> SerParam(m.params[i])])
    \o write_u32(Len(m.textures))
    \o Flatten([i \in 1..Len(m.textures) |-> SerTexture(m.textures[i])])

deserialize_mdesc(payload) ==
    LET \* The fields that follow a has-flag (the value at index flag): read
        \* when the flag is set, else the member keeps its defaults.
        ReadIf(buf, cur, flag, layout, dflt) ==
            IF ~cur.ok THEN cur
            ELSE IF cur.v[flag] # 0 THEN ReadFields(buf, cur, layout)
            ELSE [cur EXCEPT !.v = cur.v \o dflt]
        Param(f) ==
            IF ~f.ok THEN Fail
            ELSE [ok |-> TRUE, p |-> f.p,
                  v |-> [name |-> f.v[1], type |-> f.v[2], offset |-> f.v[3],
                         size |-> f.v[4], semantic |-> f.v[5] % 65536,
                         hasDefault |-> (f.v[6] # 0),
                         defaultValue |-> [type |-> f.v[7], valueBuffer |-> f.v[8]],
                         hasRange |-> (f.v[9] # 0),
                         range |-> [min |-> f.v[10], max |-> f.v[11]]]]
        \* name, type (u8), offset, size, semantic, hasDefault (u8), then the
        \* default's type (u8) and 64-byte buffer, hasRange (u8), then the
        \* range's min and max (two doubles)
        DesParam(buf, p) ==
            LET head == ReadFields(buf, At(p), <<0, 1, 4, 4, 4, 1>>)
                dflt == ReadIf(buf, head, 6, <<1, -64>>, <<0, Zeros(64)>>)
                hasR == ReadFields(buf, dflt, <<1>>)
            IN  Param(ReadIf(buf, hasR, 9, <<-8, -8>>,
                             <<Zeros(8), <<0, 0, 0, 0, 0, 0, 240, 63>>>>))
        Texture(f) ==
            IF ~f.ok THEN Fail
            ELSE [ok |-> TRUE, p |-> f.p,
                  v |-> [name |-> f.v[1], type |-> f.v[2], set |-> f.v[3],
                         binding |-> f.v[4], count |-> f.v[5],
                         semantic |-> f.v[6] % 65536]]
        \* name, type (u8), set, binding, count, semantic
        DesTexture(buf, p) == Texture(ReadFields(buf, At(p), <<0, 1, 4, 4, 4, 4>>))
        \* The description once every part is read; trailing bytes are an error.
        Description(f, pl, tl) ==
            IF ~tl.ok \/ tl.p # Len(payload) THEN Fail
            ELSE [ok |-> TRUE, p |-> tl.p,
                  v |-> [materialBlockName |-> f.v[1], materialParamSize |-> f.v[2],
                         params |-> pl.v, textures |-> tl.v,
                         renderState |->
                            [depthTest |-> (f.v[3] # 0), depthWrite |-> (f.v[4] # 0),
                             depthFunc |-> f.v[5], cull |-> f.v[6],
                             blendEnable |-> (f.v[7] # 0), srcColor |-> f.v[8],
                             dstColor |-> f.v[9], colorOp |-> f.v[10],
                             srcAlpha |-> f.v[11], dstAlpha |-> f.v[12],
                             alphaOp |-> f.v[13], colorMask |-> f.v[14],
                             alphaToCoverage |-> (f.v[15] # 0),
                             depthBiasFactor |-> f.v[16], depthBiasUnits |-> f.v[17]]]]
        \* block name, param size, the thirteen u8 of the render state and
        \* its two floats
        head == ReadFields(payload, At(0),
                           <<0, 4, 1, 1, 1, 1, 1, 1, 1, 1, 1, 1, 1, 1, 1, -4, -4>>)
        pl   == DesList(DesParam, payload, head.p)
    IN  Description(head, pl, DesList(DesTexture, payload, pl.p))

\* ------------------------------------------------------------------------
\* result.hpp: tagged results
\* ------------------------------------------------------------------------
Ok(x)     == [ok |-> TRUE, code |-> "eOk", v |-> x]
Err(code) == [ok |-> FALSE, code |-> code, v |-> <<>>]

\* ------------------------------------------------------------------------
\* binary.cpp: write_vshbin / read_vshbin
\* ------------------------------------------------------------------------
DefaultShaderBinary ==
    [contentHash |-> 0, spirvHash |-> 0, shaderIdHash |-> 0, variantHash |-> 0,
     stage |-> 1, reflection |-> DefaultReflection,
     materialDesc |-> DefaultMaterialDescription, spirv |-> <<>>]

write_vshbin(b) ==
    LET \* A chunk: the four characters of the tag, the payload size, the payload.
        write_chunk(tag, payload) == tag \o write_u32(Len(payload)) \o payload
    IN
    IF b.spirv = <<>> THEN Err("eSerializeError")
    ELSE Ok(kMagic \o write_u32(kVersion) \o write_u32(b.stage % 256)
            \o write_u64(b.contentHash) \o write_u64(b.spirvHash)
            \o (IF b.shaderIdHash # 0
                THEN write_chunk(<<83, 73, 68, 72>>, write_u64(b.shaderIdHash)) ELSE <<>>)
            \o (IF b.variantHash # 0
                THEN write_chunk(<<86, 75, 69, 89>>, write_u64(b.variantHash)) ELSE <<>>)
            \o write_chunk(<<83, 80, 82, 86>>,
                           Flatten([i \in 1..Len(b.spirv) |-> write_u32(b.spirv[i])]))
            \o write_chunk(<<82, 69, 70, 76>>, serialize_reflection(b.reflection))
            \o write_chunk(<<77, 68, 69, 83>>, serialize_mdesc(b.materialDesc)))

\* The `while (p < e)` loop over the chunks.
RECURSIVE ReadChunks(_, _, _, _)
ReadChunks(bytes, p, out, has) ==
    IF p >= Len(bytes) THEN Ok([out |-> out, has |-> has])
    ELSE
      LET \* What one chunk makes of out and has.
          Step(ok, o, h) == [ok |-> ok, out |-> o, has |-> h]
          Refl(rr) == Step(rr.ok, [out EXCEPT !.reflection = rr.v],
                           [has EXCEPT !.REFL = TRUE])
          Mdes(mm) == Step(mm.ok, [out EXCEPT !.materialDesc = mm.v],
                           [has EXCEPT !.MDES = TRUE])
          Loop(st, q) ==
              IF ~st.ok THEN Err("eDeserializeError")
              ELSE ReadChunks(bytes, q, st.out, st.has)
          \* the tag, then the u32 size and that many bytes of payload
          c == ReadFields(bytes, At(p), <<-4, 0>>)
      IN  Loop(IF ~c.ok THEN Step(FALSE, out, has)
               ELSE IF c.v[1] = <<83, 73, 68, 72>> THEN  \* "SIDH"
                   Step(Len(c.v[2]) = 8, [out EXCEPT !.shaderIdHash = FromLE(c.v[2])], has)
               ELSE IF c.v[1] = <<86, 75, 69, 89>> THEN  \* "VKEY"
                   Step(Len(c.v[2]) = 8, [out EXCEPT !.variantHash = FromLE(c.v[2])], has)
               ELSE IF c.v[1] = <<83, 80, 82, 86>> THEN  \* "SPRV"
                   Step(Len(c.v[2]) % 4 = 0, [out EXCEPT !.spirv = BytesToWords(c.v[2])],
                        [has EXCEPT !.SPRV = TRUE])
               ELSE IF c.v[1] = <<82, 69, 70, 76>> THEN  \* "REFL"
                   Refl(deserialize_reflection(c.v[2]))
               ELSE IF c.v[1] = <<77, 68, 69, 83>> THEN  \* "MDES"
                   Mdes(deserialize_mdesc(c.v[2]))
               ELSE Step(TRUE, out, has),               \* unknown chunks are skipped
               c.p)

\* The final spirvHash verification of read_vshbin.
SpirvHashUnverified(out) == TRUE

SpirvHashVerifies(out) ==
    out.spirvHash = 0 \/ xxhash64_words(out.spirv) = out.spirvHash

read_vshbin(bytes) ==
    IF Len(bytes) < 32 THEN Err("eDeserializeError")
    ELSE IF SubSeq(bytes, 1, 8) # kMagic THEN Err("eDeserializeError")
    ELSE
      \* version, flags, contentHash, spirvHash
      LET hdr == ReadFields(bytes, At(8), <<4, 4, 8, 8>>).v
      IN  IF hdr[1] < 1 \/ hdr[1] > kVersion THEN Err("eDeserializeError")
          ELSE
            LET out0 == [DefaultShaderBinary EXCEPT !.contentHash = hdr[3],
                                                    !.spirvHash = hdr[4],
                                                    !.stage = hdr[2] % 256]
                \* After the loop: every required chunk, then the hash.
                Finish(cr) ==
                    IF ~cr.ok THEN cr
                    ELSE IF ~cr.v.has.SPRV \/ ~cr.v.has.REFL \/ ~cr.v.has.MDES
                    THEN Err("eDeserializeError")
                    ELSE IF ~SpirvHashVerifies(cr.v.out) THEN Err("eDeserializeError")
                    ELSE Ok(cr.v.out)
            IN  Finish(ReadChunks(bytes, 32, out0,
                                  [SPRV |-> FALSE, REFL |-> FALSE, MDES |-> FALSE]))

\* ------------------------------------------------------------------------
\* library.cpp: the .vshlib container
\* ------------------------------------------------------------------------
kLibMagic == <<86, 83, 72, 76, 73, 66, 0, 0>>

\* sizeof(FileHeader) under #pragma pack(1): 8 + 4*4 + 4*8.
\* sizeof(FileEntry) is 8 + 1 + 7 + 8 + 8 = 32.
SizeofFileHeader == 56

\* ShaderStage::eUnknown, the stage of a default-constructed library entry.
StageUnknown == 255

\* The comparator of the std::sort calls over library entries.
EntryLess(a, b) ==
    IF a.keyHash # b.keyHash THEN a.keyHash < b.keyHash ELSE a.stage < b.stage

\* std::sort is not stable: any ordering of the input that the comparator
\* accepts as sorted is a possible outcome.
SortOutcomes(Less(_, _), s) ==
    LET Arranged(q) == [i \in 1..Len(s) |-> s[q[i]]]
        IsSorted(t) == \A i \in 1..(Len(t) - 1) : ~Less(t[i + 1], t[i])
    IN  {Arranged(q) : q \in {p \in Perms(1..Len(s)) : IsSorted(Arranged(p))}}

\* A validation loop that lets keyHash 0 through.
EntriesValidStageOnly(entries) ==
    \A i \in 1..Len(entries) : entries[i].stage # StageUnknown
\* The validation loop of write_vslib over the sorted entries.
EntriesValid(entries) ==
    \A i \in 1..Len(entries) :
        entries[i].stage # StageUnknown /\ entries[i].keyHash # 0

\* The pieces write_vslib hands to write_all, in order, for sorted entries.
\* kw is the engine-keywords argument; kw.present is FALSE for nullptr.
VslibParts(entries, kw) ==
    LET blobData       == Flatten([i \in 1..Len(entries) |-> entries[i].blob])
        blobOffset(i)  == SizeofFileHeader
                          + Len(Flatten([j \in 1..(i - 1) |-> entries[j].blob]))
        FileEntry(i)   == write_u64(entries[i].keyHash) \o write_u8(entries[i].stage)
                          \o Zeros(7) \o write_u64(blobOffset(i))
                          \o write_u64(Len(entries[i].blob))
        toc            == Flatten([i \in 1..Len(entries) |-> FileEntry(i)])
        tocOffset      == SizeofFileHeader + Len(blobData)
        tocSize        == Len(entries) * 32
        keywordsOffset == tocOffset + tocSize
        keywordsSize   == IF kw.present /\ kw.data # <<>> THEN Len(kw.data) ELSE 0
        \* magic, kVersion = 2, kFlags = 0, entryCount, reserved0, offsets and sizes
        hdr == kLibMagic \o write_u32(2) \o write_u32(0)
               \o write_u32(Len(entries)) \o write_u32(0)
               \o write_u64(tocOffset) \o write_u64(tocSize)
               \o write_u64(IF keywordsSize > 0 THEN keywordsOffset ELSE 0)
               \o write_u64(keywordsSize)
    IN  <<hdr>>
        \o (IF blobData # <<>> THEN <<blobData>> ELSE <<>>)
        \o (IF toc # <<>> THEN <<toc>> ELSE <<>>)
        \o (IF keywordsSize > 0 THEN <<kw.data>> ELSE <<>>)

\* read_vslib on the content of the file ("absent" when it cannot be opened).
\* The uint64_t fields are kept modulo 2^64: a value below 2^24 is written
\* as itself and the value 2^64 - k, 0 < k <= 2^24, as -k, so that + and -
\* are the unsigned arithmetic of the code; ULess is its <.
read_vslib(file) ==
    IF file = "absent" THEN Err("eIO")
    ELSE IF Len(file) < SizeofFileHeader THEN Err("eIO")
    ELSE IF SubSeq(file, 1, 8) # kLibMagic THEN Err("eDeserializeError")
    ELSE
      LET ULess(a, b) == IF (a < 0) = (b < 0) THEN a < b ELSE b < 0
          read_u64(buf, p) ==
              LET r == read_bytes(buf, p, 8)
              IN  IF ~r.ok THEN Fail
                  ELSE IF SubSeq(r.v, 4, 8) = <<255, 255, 255, 255, 255>>
                  THEN [r EXCEPT !.v = FromLE(SubSeq(r.v, 1, 3)) - 16777216]
                  ELSE [r EXCEPT !.v = FromLE(r.v)]
          version        == read_uN(file, 8, 4).v
          entryCount     == read_uN(file, 16, 4).v
          tocOffset      == read_u64(file, 24).v
          tocSize        == read_u64(file, 32).v
          keywordsOffset == read_u64(file, 40).v
          keywordsSize   == read_u64(file, 48).v
          fileSize       == Len(file)
          blobBegin      == SizeofFileHeader
          blobEnd        == tocOffset
          blob           == read_bytes(file, blobBegin, blobEnd - blobBegin)
          DesFileEntry(buf, p) ==
              LET k == read_uN(buf, p, 8)
                  s == read_uN(buf, k.p, 1)
                  r == read_bytes(buf, s.p, 7)
                  o == read_u64(buf, r.p)
                  z == read_u64(buf, o.p)
              IN  IF ~z.ok THEN Fail
                  ELSE [ok |-> TRUE, p |-> z.p,
                        v |-> [keyHash |-> k.v, stage |-> s.v,
                               offset |-> o.v, size |-> z.v]]
          toc            == DesItems(DesFileEntry, file, tocOffset, entryCount, <<>>)
          kws            == read_bytes(file, keywordsOffset, keywordsSize)
      IN  IF version # 2 THEN Err("eDeserializeError")
          ELSE IF ULess(fileSize, tocOffset + tocSize) THEN Err("eDeserializeError")
          ELSE IF keywordsOffset # 0 /\ ULess(fileSize, keywordsOffset + keywordsSize)
               THEN Err("eDeserializeError")
          ELSE IF keywordsOffset # 0 /\ ULess(keywordsOffset, tocOffset + tocSize)
               THEN Err("eDeserializeError")
          \* blobData.resize of 2^63 bytes or more throws std::length_error
          ELSE IF blobEnd - blobBegin < 0 THEN Err("crash")
          ELSE IF blobEnd # blobBegin /\ ~blob.ok THEN Err("eIO")
          ELSE IF entryCount # 0 /\ ~toc.ok THEN Err("eIO")
          ELSE IF \E i \in 1..entryCount :
                     ULess(toc.v[i].offset, blobBegin)
                     \/ ULess(blobEnd, toc.v[i].offset + toc.v[i].size)
               THEN Err("eDeserializeError")
          \* engineKeywordsVkw.resize, as above
          ELSE IF keywordsOffset # 0 /\ keywordsSize < 0 THEN Err("crash")
          ELSE IF keywordsOffset # 0 /\ keywordsSize # 0 /\ ~kws.ok THEN Err("eIO")
          ELSE Ok([entries |-> IF entryCount = 0 THEN <<>> ELSE toc.v,
                   blobData |-> IF blobEnd = blobBegin THEN <<>> ELSE blob.v,
                   engineKeywordsVkw |->
                       IF keywordsOffset # 0 /\ keywordsSize # 0 THEN kws.v ELSE <<>>])

\* The blob of the first TOC entry matching (keyHash, stage).  The test is
\* the unsigned one over the wrapped sum; out.resize(e.size) throws for a
\* size of 2^63 or more; a memcpy that starts before blobData is undefined.
extract_vslib_blob(l, keyHash, stage) ==
    LET ULess(a, b) == IF (a < 0) = (b < 0) THEN a < b ELSE b < 0
        hits == {i \in 1..Len(l.entries) :
                    l.entries[i].keyHash = keyHash /\ l.entries[i].stage = stage}
        e    == l.entries[CHOOSE i \in hits : \A j \in hits : i <= j]
        rel  == e.offset - SizeofFileHeader
    IN  IF hits = {} THEN Err("eIO")
        ELSE IF ULess(Len(l.blobData), rel + e.size) THEN Err("eDeserializeError")
        ELSE IF e.size < 0 THEN Err("crash")
        ELSE IF rel < 0 THEN Err("undefined")
        ELSE Ok(SubSeq(l.blobData, rel + 1, rel + e.size))

\* ------------------------------------------------------------------------
\* keywords.hpp, system.cpp: keyword values and the build-side variant hash.
\* A KeywordDecl is [name, dispatch, scope, kind, defaultValue, enumValues,
\* constraint] with dispatch 0 = ePermutation, 1 = eRuntime; scope
\* 0 = eShaderLocal, 1 = eGlobal; kind 0 = eBool, 1 = eEnum.
\* ------------------------------------------------------------------------
\* "" and "1", "true", "TRUE", "True" are 1; "0", "false", "FALSE", "False" are 0.
parse_bool_value(s) ==
    IF s = <<>> THEN Ok(1)
    ELSE IF s \in {<<49>>, <<116, 114, 117, 101>>, <<84, 82, 85, 69>>, <<84, 114, 117, 101>>}
    THEN Ok(1)
    ELSE IF s \in {<<48>>, <<102, 97, 108, 115, 101>>, <<70, 65, 76, 83, 69>>,
                   <<70, 97, 108, 115, 101>>}
    THEN Ok(0)
    ELSE Err("eParseError")

\* idx = idx * 10u + (c - '0') over the characters, left to right, in
\* uint32_t: the sum is kept modulo 2^32, as two halves of 16 bits.  (A
\* result of 2^31 or more is not among those of the model.)
DigitsValue(s, idx) ==
    LET RECURSIVE Acc(_, _, _)
        Acc(t, hi, lo) ==
            IF t = <<>> THEN (hi * 65536) + lo
            ELSE Acc(Tail(t),
                     ((hi * 10) + (((lo * 10) + (Head(t) - 48)) \div 65536)) % 65536,
                     ((lo * 10) + (Head(t) - 48)) % 65536)
    IN  Acc(s, idx \div 65536, idx % 65536)

parse_keyword_value(d, raw) ==
    LET hits == {i \in 1..Len(d.enumValues) : d.enumValues[i] = raw}
    IN  IF d.kind = 0 THEN parse_bool_value(raw)
        ELSE IF raw = <<>> THEN Ok(d.defaultValue)
        ELSE IF \A i \in 1..Len(raw) : raw[i] >= 48 /\ raw[i] <= 57
             THEN IF DigitsValue(raw, 0) >= Len(d.enumValues) THEN Err("eParseError")
                  ELSE Ok(DigitsValue(raw, 0))
        ELSE IF hits # {} THEN Ok((CHOOSE i \in hits : \A j \in hits : i <= j) - 1)
        ELSE Err("eParseError")

\* Resolution of one permutation keyword in compute_variant_hash: the
\* define (the last one of that name: defMap[d.name] = d.value in order),
\* else the engine `set` value for a global keyword, else the default.
\* kw.has is FALSE for a null engineKw; kw.values is the NAME -> raw VALUE
\* map as a set of [name, value].
\* Without the scope test the engine value of a local keyword is taken too.
ResolveKeywordValue_any_scope(k, defines, kw) ==
    LET hits == {i \in 1..Len(defines) : defines[i].name = k.name}
    IN  IF hits # {}
        THEN parse_keyword_value(k, defines[CHOOSE i \in hits : \A j \in hits : j <= i].value)
        ELSE IF kw.has /\ \E e \in kw.values : e.name = k.name
        THEN parse_keyword_value(k, (CHOOSE e \in kw.values : e.name = k.name).value)
        ELSE Ok(k.defaultValue)

ResolveKeywordValue(k, defines, kw) ==
    LET hits == {i \in 1..Len(defines) : defines[i].name = k.name}
    IN  IF hits # {}
        THEN parse_keyword_value(k, defines[CHOOSE i \in hits : \A j \in hits : j <= i].value)
        ELSE IF kw.has /\ k.scope = 1 /\ \E e \in kw.values : e.name = k.name
        THEN parse_keyword_value(k, (CHOOSE e \in kw.values : e.name = k.name).value)
        ELSE Ok(k.defaultValue)

\* parse_keyword_value_local of main.cpp, the copy of parse_keyword_value.
parse_keyword_value_local(d, raw) == parse_keyword_value(d, raw)

\* The engine values injected as defines for the global permutation keywords
\* that no define names yet.
RECURSIVE InjectGlobals(_, _, _)
InjectGlobals(keywords, defines, values) ==
    IF keywords = <<>> THEN defines
    ELSE LET kd == Head(keywords)
             iv == {e \in values : e.name = kd.name}
         IN  IF /\ kd.dispatch = 0 /\ kd.scope = 1 /\ iv # {}
                /\ \A i \in 1..Len(defines) : defines[i].name # kd.name
             THEN InjectGlobals(Tail(keywords),
                                Append(defines, [name |-> kd.name,
                                                 value |-> (CHOOSE e \in iv : TRUE).value]),
                                values)
             ELSE InjectGlobals(Tail(keywords), defines, values)

\* The value of one keyword in the constraint context of cmd_cook: the
\* last define of the name, else the engine `set` value of a global
\* keyword, else the default.
ContextValue(kd, defines, kw) ==
    LET ds == {j \in 1..Len(defines) : defines[j].name = kd.name}
        iv == {e \in kw.values : e.name = kd.name}
    IN  IF ds # {}
        THEN parse_keyword_value_local(kd, defines[CHOOSE i \in ds : \A j \in ds : j <= i].value)
        ELSE IF kw.has /\ kd.scope = 1 /\ iv # {}
        THEN parse_keyword_value_local(kd, (CHOOSE e \in iv : TRUE).value)
        ELSE Ok(kd.defaultValue)

\* The comparator of both std::sort calls over (nameHash, value) entries.
KVLess(a, b) ==
    IF a.nameHash # b.nameHash THEN a.nameHash < b.nameHash ELSE a.value < b.value

PermutationKeywords(keywords) ==
    LET IsPerm(k) == k.dispatch = 0
    IN  SelectSeq(keywords, IsPerm)

compute_variant_hash(keywords, opt, kw, sourceHash) ==
    LET perm == PermutationKeywords(keywords)
        vals == [i \in 1..Len(perm) |-> ResolveKeywordValue(perm[i], opt.defines, kw)]
        \* Entries that the comparator does not order are equal, so every
        \* outcome of the sort is the same list.
        kvs  == CHOOSE s \in SortOutcomes(KVLess,
                    [i \in 1..Len(perm) |->
                        [nameHash |-> xxhash64(perm[i].name, 0), value |-> vals[i].v]]) : TRUE
        \* u64 source hash, u32 stage, u32 count, then per entry u64
        \* nameHash, u32 value, u32 0.
        buf  == write_u64(sourceHash) \o write_u32(opt.stage % 256) \o write_u32(Len(kvs))
                \o Flatten([i \in 1..Len(kvs) |->
                      write_u64(kvs[i].nameHash) \o write_u32(kvs[i].value) \o write_u32(0)])
    IN  IF \E i \in 1..Len(perm) : ~vals[i].ok THEN Err("eParseError")
        ELSE Ok(xxhash64(buf, 0))

\* ------------------------------------------------------------------------
\* variant_key.hpp, variant_key.cpp, shader_id.hpp: the runtime key
\* [m_ShaderIdHash, m_Stage, m_Entries]
\* ------------------------------------------------------------------------
\* std::sort of the entries in VariantKey::build; without it the entries
\* are hashed in the order of the set() calls.
EntriesInSetOrder(kvs) == kvs

SortVariantKeyEntries(kvs) == CHOOSE s \in SortOutcomes(KVLess, kvs) : TRUE

VariantKey_build(key) ==
    LET kvs == SortVariantKeyEntries(key.m_Entries)
        buf == write_u64(key.m_ShaderIdHash) \o write_u32(key.m_Stage % 256)
               \o write_u32(Len(kvs))
               \o Flatten([i \in 1..Len(kvs) |->
                     write_u64(kvs[i].nameHash) \o write_u32(kvs[i].value) \o write_u32(0)])
    IN  xxhash64(buf, 0)

\* ------------------------------------------------------------------------
\* shader_id.hpp, system.cpp: build_shader and its cache
\* ------------------------------------------------------------------------
\* std::string operator<: lexicographic over the bytes.
RECURSIVE StrLess(_, _)
StrLess(a, b) ==
    IF b = <<>> THEN FALSE
    ELSE IF a = <<>> THEN TRUE
    ELSE IF Head(a) # Head(b) THEN Head(a) < Head(b)
    ELSE StrLess(Tail(a), Tail(b))

\* std::to_string of a non-negative integer.
RECURSIVE to_string(_)
to_string(n) == IF n < 10 THEN <<48 + n>> ELSE to_string(n \div 10) \o <<48 + (n % 10)>>

\* path(virtualPath).stem(): the last component without its last
\* extension; a name that is "." or "..", or whose only period leads it,
\* has no extension.
shader_id_from_virtual_path(virtualPath) ==
    LET Last(S)  == IF S = {} THEN 0 ELSE CHOOSE i \in S : \A j \in S : j <= i
        slash    == Last({i \in 1..Len(virtualPath) : virtualPath[i] = 47})
        filename == SubSeq(virtualPath, slash + 1, Len(virtualPath))
        dot      == Last({i \in 1..Len(filename) : filename[i] = 46})
    IN  IF dot <= 1 \/ filename = <<46, 46>> THEN filename
        ELSE SubSeq(filename, 1, dot - 1)

\* One line per define, NAME or NAME=VALUE, ordered, each ended by '\n'.
normalize_define_list(defs) ==
    LET lines  == [i \in 1..Len(defs) |->
                     IF defs[i].value = <<>> THEN defs[i].name
                     ELSE defs[i].name \o <<61>> \o defs[i].value]
        ordered == CHOOSE s \in SortOutcomes(StrLess, lines) : TRUE
    IN  Flatten([i \in 1..Len(ordered) |-> ordered[i] \o <<10>>])

\* The ParsedMetadata of a default-constructed parse: params and textures
\* are the name-keyed maps, as sets of records with a name.
DefaultMetadata ==
    [hasMaterialDecl |-> FALSE, params |-> {}, textures |-> {}, keywords |-> <<>>,
     renderState |-> DefaultMaterialDescription.renderState,
     renderStateExplicit |-> FALSE]

\* The seed-chained hash over source text, virtual path, stage, normalised
\* defines, include directories and the metadata string.
compute_build_hash(src, opt, meta) ==
    LET RECURSIVE HashDirs(_, _)
        HashDirs(dirs, h) ==
            IF dirs = <<>> THEN h ELSE HashDirs(Tail(dirs), xxhash64(Head(dirs), h))
        \* std::to_string of a float or double: "%f" of the values the
        \* metadata of the model holds, 0 and 1.
        FloatText(bits) ==
            IF \A i \in 1..Len(bits) : bits[i] = 0 THEN <<48, 46, 48, 48, 48, 48, 48, 48>> (* "0.000000" *)
            ELSE IF bits \in {<<0, 0, 128, 63>>, <<0, 0, 0, 0, 0, 0, 240, 63>>}
            THEN <<49, 46, 48, 48, 48, 48, 48, 48>> (* "1.000000" *)
            ELSE <<63>>
        Line(key, text) == key \o text \o <<10>>
        Names(S) == CHOOSE p \in Perms({x.name : x \in S}) :
                        \A i \in 1..(Len(p) - 1) : ~StrLess(p[i + 1], p[i])
        Bytes(buf) == Flatten([i \in 1..Len(buf) |-> to_string(buf[i]) \o <<44>>])
        ParamLines(pm) ==
            Line(<<112, 58>> (* "p:" *) \o pm.name \o <<58, 115, 101, 109, 61>> (* ":sem=" *), to_string(pm.semantic))
            \o (IF pm.hasDefault
                THEN Line(<<112, 58>> (* "p:" *) \o pm.name \o <<58, 100, 101, 102, 61>> (* ":def=" *), Bytes(pm.defaultValue.valueBuffer))
                ELSE <<>>)
            \o (IF pm.hasRange
                THEN Line(<<112, 58>> (* "p:" *) \o pm.name \o <<58, 114, 97, 110, 103, 101, 61>> (* ":range=" *),
                          FloatText(pm.range.min) \o <<44>> \o FloatText(pm.range.max))
                ELSE <<>>)
        TextureLine(tm) == Line(<<116, 58>> (* "t:" *) \o tm.name \o <<58, 115, 101, 109, 61>> (* ":sem=" *), to_string(tm.semantic))
        Param(k) == CHOOSE pm \in meta.params : pm.name = k
        Texture(k) == CHOOSE tm \in meta.textures : tm.name = k
        rs == meta.renderState
        m  == Line(<<109, 97, 116, 101, 114, 105, 97, 108, 61>> (* "material=" *), to_string(B2I(meta.hasMaterialDecl)))
              \o Line(<<100, 101, 112, 116, 104, 84, 101, 115, 116, 61>> (* "depthTest=" *), to_string(B2I(rs.depthTest)))
              \o Line(<<100, 101, 112, 116, 104, 87, 114, 105, 116, 101, 61>> (* "depthWrite=" *), to_string(B2I(rs.depthWrite)))
              \o Line(<<100, 101, 112, 116, 104, 70, 117, 110, 99, 61>> (* "depthFunc=" *), to_string(rs.depthFunc))
              \o Line(<<99, 117, 108, 108, 61>> (* "cull=" *), to_string(rs.cull))
              \o Line(<<98, 108, 101, 110, 100, 69, 110, 97, 98, 108, 101, 61>> (* "blendEnable=" *), to_string(B2I(rs.blendEnable)))
              \o Line(<<115, 114, 99, 67, 111, 108, 111, 114, 61>> (* "srcColor=" *), to_string(rs.srcColor))
              \o Line(<<100, 115, 116, 67, 111, 108, 111, 114, 61>> (* "dstColor=" *), to_string(rs.dstColor))
              \o Line(<<99, 111, 108, 111, 114, 79, 112, 61>> (* "colorOp=" *), to_string(rs.colorOp))
              \o Line(<<115, 114, 99, 65, 108, 112, 104, 97, 61>> (* "srcAlpha=" *), to_string(rs.srcAlpha))
              \o Line(<<100, 115, 116, 65, 108, 112, 104, 97, 61>> (* "dstAlpha=" *), to_string(rs.dstAlpha))
              \o Line(<<97, 108, 112, 104, 97, 79, 112, 61>> (* "alphaOp=" *), to_string(rs.alphaOp))
              \o Line(<<99, 111, 108, 111, 114, 77, 97, 115, 107, 61>> (* "colorMask=" *), to_string(rs.colorMask))
              \o Line(<<97, 108, 112, 104, 97, 84, 111, 67, 111, 118, 101, 114, 97, 103, 101, 61>> (* "alphaToCoverage=" *), to_string(B2I(rs.alphaToCoverage)))
              \o Line(<<100, 101, 112, 116, 104, 66, 105, 97, 115, 70, 97, 99, 116, 111, 114, 61>> (* "depthBiasFactor=" *), FloatText(rs.depthBiasFactor))
              \o Line(<<100, 101, 112, 116, 104, 66, 105, 97, 115, 85, 110, 105, 116, 115, 61>> (* "depthBiasUnits=" *), FloatText(rs.depthBiasUnits))
              \o Flatten([i \in 1..Cardinality(meta.params) |->
                            ParamLines(Param(Names(meta.params)[i]))])
              \o Flatten([i \in 1..Cardinality(meta.textures) |->
                            TextureLine(Texture(Names(meta.textures)[i]))])
        text   == xxhash64(src.sourceText, 0)
        path   == xxhash64(src.virtualPath, text)
        stage  == xxhash64(<<opt.stage % 256>>, path)
        defs   == xxhash64(normalize_define_list(opt.defines), stage)
    IN  xxhash64(m, HashDirs(opt.includeDirs, defs))

\* ------------------------------------------------------------------------
\* metadata.cpp: parse_vultra_metadata
\* ------------------------------------------------------------------------
\* The pieces of s between the bytes of seps, empty pieces included.
RECURSIVE Split(_, _)
Split(s, seps) ==
    LET cut == {i \in 1..Len(s) : s[i] \in seps}
    IN  IF cut = {} THEN <<s>>
        ELSE LET i == CHOOSE k \in cut : \A m \in cut : k <= m
             IN  <<SubSeq(s, 1, i - 1)>> \o Split(SubSeq(s, i + 1, Len(s)), seps)

\* The index of s in names, counted from 0, when s is one of them.
NamedValue(names, s) ==
    IF \E i \in 1..Len(names) : names[i] = s
    THEN [ok |-> TRUE, v |-> (CHOOSE i \in 1..Len(names) : names[i] = s) - 1]
    ELSE [ok |-> FALSE, v |-> 0]

parse_bool_token(tok) ==
    IF tok = <<79, 110>> (* "On" *) THEN [ok |-> TRUE, v |-> TRUE]
    ELSE IF tok = <<79, 102, 102>> (* "Off" *) THEN [ok |-> TRUE, v |-> FALSE]
    ELSE [ok |-> FALSE, v |-> FALSE]

\* Semantic: eUnknown = 0, eBaseColor, ..., eCustom = 9.
parse_semantic(s) ==
    NamedValue(<<<<85, 110, 107, 110, 111, 119, 110>> (* "Unknown" *), <<66, 97, 115, 101, 67, 111, 108, 111, 114>> (* "BaseColor" *), <<77, 101, 116, 97, 108, 108, 105, 99>> (* "Metallic" *), <<82, 111, 117, 103, 104, 110, 101, 115, 115>> (* "Roughness" *), <<78, 111, 114, 109, 97, 108>> (* "Normal" *),
                 <<69, 109, 105, 115, 115, 105, 118, 101>> (* "Emissive" *), <<79, 99, 99, 108, 117, 115, 105, 111, 110>> (* "Occlusion" *), <<79, 112, 97, 99, 105, 116, 121>> (* "Opacity" *), <<65, 108, 112, 104, 97, 67, 108, 105, 112>> (* "AlphaClip" *), <<67, 117, 115, 116, 111, 109>> (* "Custom" *)>>, s)

\* BlendFactor: eZero = 0, eOne, ..., eOneMinusDstAlpha = 9.
parse_blend_factor(s) ==
    NamedValue(<<<<90, 101, 114, 111>> (* "Zero" *), <<79, 110, 101>> (* "One" *), <<83, 114, 99, 67, 111, 108, 111, 114>> (* "SrcColor" *), <<79, 110, 101, 77, 105, 110, 117, 115, 83, 114, 99, 67, 111, 108, 111, 114>> (* "OneMinusSrcColor" *), <<68, 115, 116, 67, 111, 108, 111, 114>> (* "DstColor" *),
                 <<79, 110, 101, 77, 105, 110, 117, 115, 68, 115, 116, 67, 111, 108, 111, 114>> (* "OneMinusDstColor" *), <<83, 114, 99, 65, 108, 112, 104, 97>> (* "SrcAlpha" *), <<79, 110, 101, 77, 105, 110, 117, 115, 83, 114, 99, 65, 108, 112, 104, 97>> (* "OneMinusSrcAlpha" *), <<68, 115, 116, 65, 108, 112, 104, 97>> (* "DstAlpha" *),
                 <<79, 110, 101, 77, 105, 110, 117, 115, 68, 115, 116, 65, 108, 112, 104, 97>> (* "OneMinusDstAlpha" *)>>, s)

parse_cull(s) == NamedValue(<<<<78, 111, 110, 101>> (* "None" *), <<66, 97, 99, 107>> (* "Back" *), <<70, 114, 111, 110, 116>> (* "Front" *)>>, s)

parse_blend_op(s) ==
    NamedValue(<<<<65, 100, 100>> (* "Add" *), <<83, 117, 98, 116, 114, 97, 99, 116>> (* "Subtract" *), <<82, 101, 118, 101, 114, 115, 101, 83, 117, 98, 116, 114, 97, 99, 116>> (* "ReverseSubtract" *), <<77, 105, 110>> (* "Min" *), <<77, 97, 120>> (* "Max" *)>>, s)

parse_compare_op(s) ==
    NamedValue(<<<<78, 101, 118, 101, 114>> (* "Never" *), <<76, 101, 115, 115>> (* "Less" *), <<69, 113, 117, 97, 108>> (* "Equal" *), <<76, 101, 115, 115, 79, 114, 69, 113, 117, 97, 108>> (* "LessOrEqual" *), <<71, 114, 101, 97, 116, 101, 114>> (* "Greater" *), <<78, 111, 116, 69, 113, 117, 97, 108>> (* "NotEqual" *),
                 <<71, 114, 101, 97, 116, 101, 114, 79, 114, 69, 113, 117, 97, 108>> (* "GreaterOrEqual" *), <<65, 108, 119, 97, 121, 115>> (* "Always" *)>>, s)

\* std::stof reads the longest numeric prefix of the text and throws when
\* there is none.  The numerals of the model are an optional sign, digits
\* and an optional fraction; the value is exact when the fraction is zeros
\* or a 5 followed by zeros, and the result is the IEEE-754 single of that
\* value, little-endian.  (Exponents, hexadecimal numerals, inf and nan are
\* not among the inputs of the model.)
parse_float(s) ==
    LET IsDigit(c) == c >= 48 /\ c <= 57
        \* the length of the run of digits that t starts with
        Run(t) == IF \A i \in 1..Len(t) : IsDigit(t[i]) THEN Len(t)
                  ELSE (CHOOSE i \in 1..Len(t) : ~IsDigit(t[i]) /\ \A j \in 1..(i - 1) : IsDigit(t[j])) - 1
        RECURSIVE Decimal(_)
        Decimal(d) == IF d = <<>> THEN 0 ELSE 10 * Decimal(SubSeq(d, 1, Len(d) - 1)) + (d[Len(d)] - 48)
        \* the single whose value is twice / 2
        Single(twice, neg) ==
            LET Word(e2) == ((e2 - 1 + 127) * (2^23)) + ((twice - (2^e2)) * (2^(23 - e2)))
                Bits(word) == [LE(word, 4) EXCEPT ![4] = @ + 128 * B2I(neg)]
            IN  Bits(IF twice = 0 THEN 0
                     ELSE Word(CHOOSE e \in 0..24 : (2^e) <= twice /\ twice < (2^(e + 1))))
        Value(int, frac, neg) ==
            LET Exact(half) ==
                    [ok |-> TRUE,
                     v |-> CHOOSE b \in {Single(2 * Decimal(int) + B2I(half), neg)} :
                               half \/ \A i \in 1..Len(frac) : frac[i] = 48]
            IN  IF Len(int) + Len(frac) = 0 THEN [ok |-> FALSE, v |-> Zeros(4)]
                ELSE Exact(frac # <<>> /\ frac[1] = 53 /\ \A i \in 2..Len(frac) : frac[i] = 48)
        Fraction(int, rest, neg) ==
            Value(int,
                  IF rest # <<>> /\ rest[1] = 46 THEN SubSeq(rest, 2, 1 + Run(Tail(rest)))
                  ELSE <<>>,
                  neg)
        Body(body, neg) ==
            LET Digits(nInt) == Fraction(SubSeq(body, 1, nInt), SubSeq(body, nInt + 1, Len(body)), neg)
            IN  Digits(Run(body))
    IN  Body(IF s # <<>> /\ s[1] \in {43, 45} THEN Tail(s) ELSE s, s # <<>> /\ s[1] = 45)

\* "(...)" with comma-separated numbers: std::getline yields the items up
\* to each comma and none after the last one.
parse_parenthesized_list(s) ==
    LET RECURSIVE trim(_)
        trim(t) == IF t # <<>> /\ Head(t) \in {9, 10, 11, 12, 13, 32} THEN trim(Tail(t))
                   ELSE IF t # <<>> /\ t[Len(t)] \in {9, 10, 11, 12, 13, 32}
                   THEN trim(SubSeq(t, 1, Len(t) - 1))
                   ELSE t
        Number(item) == IF item = <<>> THEN [ok |-> FALSE, v |-> Zeros(4)] ELSE parse_float(item)
        Numbers(fs) == IF fs = <<>> \/ \E i \in 1..Len(fs) : ~fs[i].ok
                       THEN [ok |-> FALSE, v |-> <<>>]
                       ELSE [ok |-> TRUE, v |-> [i \in 1..Len(fs) |-> fs[i].v]]
        Items(pieces) ==
            Numbers([i \in 1..(Len(pieces) - B2I(pieces[Len(pieces)] = <<>>)) |->
                        Number(trim(pieces[i]))])
    IN  IF Len(s) < 2 \/ s[1] # 40 \/ s[Len(s)] # 41 THEN [ok |-> FALSE, v |-> <<>>]
        ELSE Items(Split(SubSeq(s, 2, Len(s) - 1), {44}))

\* token: name(...)
parse_attr(token, name) ==
    IF /\ Len(token) > Len(name)
       /\ SubSeq(token, 1, Len(name)) = name
       /\ token[Len(name) + 1] = 40
       /\ token[Len(token)] = 41
    THEN [ok |-> TRUE, payload |-> SubSeq(token, Len(name) + 2, Len(token) - 1)]
    ELSE [ok |-> FALSE, payload |-> <<>>]

\* The buffer is zeroed and the first 16 values at most are copied; the
\* type is left alone.
write_default(dst, values) ==
    LET count == IF Len(values) < 16 THEN Len(values) ELSE 16
        bytes == Flatten([i \in 1..count |-> values[i]])
    IN  [dst EXCEPT !.valueBuffer = bytes \o Zeros(64 - Len(bytes))]

\* A keyword directive that takes every bool to default to 0.
parse_keyword_directive_default_0(toks) ==
    LET dispatch == NamedValue(<<<<112, 101, 114, 109, 117, 116, 101>> (* "permute" *), <<114, 117, 110, 116, 105, 109, 101>> (* "runtime" *), <<115, 112, 101, 99, 105, 97, 108>> (* "special" *)>>, toks[4])
        Scope(t) == IF t = <<103, 108, 111, 98, 97, 108>> (* "global" *) THEN 1
                    ELSE IF t = <<109, 97, 116, 101, 114, 105, 97, 108>> (* "material" *) THEN 2
                    ELSE IF t = <<112, 97, 115, 115>> (* "pass" *) THEN 3
                    ELSE IF t \in {<<108, 111, 99, 97, 108>> (* "local" *), <<115, 104, 97, 100, 101, 114>> (* "shader" *), <<115, 104, 97, 100, 101, 114, 108, 111, 99, 97, 108>> (* "shaderlocal" *)} THEN 0
                    ELSE -1
        hasScope == Len(toks) >= 5 /\ Scope(toks[5]) >= 0
        idx      == IF hasScope THEN 6 ELSE 5
        parts    == Split(toks[idx], {61})
        rhs      == SubSeq(toks[idx], Len(parts[1]) + 2, Len(toks[idx]))
        enums    == SelectSeq(Split(rhs, {124}), LAMBDA e : e # <<>>)
        last     == toks[Len(toks)]
        decl     == [name |-> parts[1], dispatch |-> dispatch.v,
                     scope |-> IF hasScope THEN Scope(toks[5]) ELSE 0,
                     kind |-> IF rhs \in {<<>>, <<48>>, <<49>>} THEN 0 ELSE 1,
                     defaultValue |-> 0,
                     enumValues |-> IF rhs \in {<<>>, <<48>>, <<49>>} THEN <<>> ELSE enums,
                     constraint |-> IF Len(toks) > idx /\ parse_attr(last, <<111, 110, 108, 121, 95, 105, 102>> (* "only_if" *)).ok
                                    THEN last ELSE <<>>]
    IN  IF Len(toks) < 5 \/ ~dispatch.ok \/ Len(toks) < idx THEN Err("eParseError")
        ELSE IF rhs \notin {<<>>, <<48>>, <<49>>} /\ enums = <<>> THEN Err("eParseError")
        ELSE Ok(decl)

\* The keyword directive, `keyword <dispatch> [<scope>] <NAME>[=<rhs>]
\* [only_if(<expr>)]`, is not among the branches of metadata.cpp (there a
\* `keyword` line ends in "Unknown #pragma vultra keyword"), while
\* ParsedMetadata::keywords is declared in metadata.hpp and read by
\* system.cpp and main.cpp.  It is modelled from the specification, 4.1:
\* dispatch is permute, runtime or special; the scope token is optional and
\* defaults to shader-local; a right-hand side of 0 or 1 makes a bool with
\* that default, any other a list of enumerants separated by '|' with
\* default index 0; the last token of the line may be only_if(<expr>), kept
\* as written.  The scope names are those of engine_keywords.cpp, whose
\* `keyword` lines have the same grammar.
parse_keyword_directive(toks) ==
    LET dispatch == NamedValue(<<<<112, 101, 114, 109, 117, 116, 101>> (* "permute" *), <<114, 117, 110, 116, 105, 109, 101>> (* "runtime" *), <<115, 112, 101, 99, 105, 97, 108>> (* "special" *)>>, toks[4])
        Scope(t) == IF t = <<103, 108, 111, 98, 97, 108>> (* "global" *) THEN 1
                    ELSE IF t = <<109, 97, 116, 101, 114, 105, 97, 108>> (* "material" *) THEN 2
                    ELSE IF t = <<112, 97, 115, 115>> (* "pass" *) THEN 3
                    ELSE IF t \in {<<108, 111, 99, 97, 108>> (* "local" *), <<115, 104, 97, 100, 101, 114>> (* "shader" *), <<115, 104, 97, 100, 101, 114, 108, 111, 99, 97, 108>> (* "shaderlocal" *)} THEN 0
                    ELSE -1
        hasScope == Len(toks) >= 5 /\ Scope(toks[5]) >= 0
        idx      == IF hasScope THEN 6 ELSE 5
        parts    == Split(toks[idx], {61})
        rhs      == SubSeq(toks[idx], Len(parts[1]) + 2, Len(toks[idx]))
        enums    == SelectSeq(Split(rhs, {124}), LAMBDA e : e # <<>>)
        last     == toks[Len(toks)]
        decl     == [name |-> parts[1], dispatch |-> dispatch.v,
                     scope |-> IF hasScope THEN Scope(toks[5]) ELSE 0,
                     kind |-> IF rhs \in {<<>>, <<48>>, <<49>>} THEN 0 ELSE 1,
                     defaultValue |-> IF rhs = <<49>> THEN 1 ELSE 0,
                     enumValues |-> IF rhs \in {<<>>, <<48>>, <<49>>} THEN <<>> ELSE enums,
                     constraint |-> IF Len(toks) > idx /\ parse_attr(last, <<111, 110, 108, 121, 95, 105, 102>> (* "only_if" *)).ok
                                    THEN last ELSE <<>>]
    IN  IF Len(toks) < 5 \/ ~dispatch.ok \/ Len(toks) < idx THEN Err("eParseError")
        ELSE IF rhs \notin {<<>>, <<48>>, <<49>>} /\ enums = <<>> THEN Err("eParseError")
        ELSE Ok(decl)

\* The directive of a "#pragma vultra" line, given by its tokens, with the
\* metadata read so far; the result is the metadata after the line, or the
\* error that ends the parse.  A `state` line of three tokens reads toks[3] past the end of the
\* token vector, which is undefined behaviour: beyond names what the read
\* does, "crash" (the process dies), "known" (the bytes read equal one of
\* the sub-keywords, whose argument count check then fails), "unknown"
\* (they equal none) or "undefined" (left open).
ParseDirective(toks, out, beyond) ==
    LET ParseError == Err("eParseError")
        \* `continue`: on to the next line with the metadata o
        Continue(o) == Ok(o)
        Explicit(rs) == Continue([out EXCEPT !.renderState = rs, !.renderStateExplicit = TRUE])
        NewParam(n) ==
            IF \E pm \in out.params : pm.name = n THEN CHOOSE pm \in out.params : pm.name = n
            ELSE [name |-> n, semantic |-> 0, hasDefault |-> FALSE,
                  defaultValue |-> [type |-> 0, valueBuffer |-> Zeros(64)],
                  hasRange |-> FALSE,
                  range |-> [min |-> Zeros(8), max |-> <<0, 0, 0, 0, 0, 0, 240, 63>>]]
        NewTexture(n) ==
            IF \E tm \in out.textures : tm.name = n
            THEN CHOOSE tm \in out.textures : tm.name = n
            ELSE [name |-> n, semantic |-> 0]
        \* float to double: the sign, the exponent rebiased, the fraction
        \* shifted left by 29 bits
        Double(f) ==
            LET word == FromLE(<<f[1], f[2], f[3], f[4] % 128>>)
                sign == 128 * (f[4] \div 128)
                E    == (word \div (2^23)) - 127 + 1023
                m    == word % (2^23)
            IN  IF word = 0 THEN <<0, 0, 0, 0, 0, 0, 0, sign>>
                ELSE <<0, 0, 0, (m % 8) * 32, (m \div 8) % 256, (m \div (2^11)) % 256,
                       ((m \div (2^19)) % 16) + ((E % 16) * 16), (E \div 16) + sign>>
        RECURSIVE ParamAttrs(_, _)
        ParamAttrs(t, meta) ==
            LET List(p) == parse_parenthesized_list(<<40>> \o p \o <<41>>)
                Semantic(r) ==
                    IF ~r.ok THEN [ok |-> FALSE, v |-> meta]
                    ELSE ParamAttrs(t + 1, [meta EXCEPT !.semantic = r.v])
                Default(r) ==
                    IF ~r.ok THEN [ok |-> FALSE, v |-> meta]
                    ELSE ParamAttrs(t + 1,
                                    [meta EXCEPT !.hasDefault = TRUE,
                                                 !.defaultValue = write_default(@, r.v)])
                Range(r) ==
                    IF ~r.ok \/ Len(r.v) # 2 THEN [ok |-> FALSE, v |-> meta]
                    ELSE ParamAttrs(t + 1,
                                    [meta EXCEPT !.hasRange = TRUE,
                                                 !.range = [min |-> Double(r.v[1]),
                                                            max |-> Double(r.v[2])]])
                Attr(sem, def, rng) ==
                    IF sem.ok THEN Semantic(parse_semantic(sem.payload))
                    ELSE IF def.ok THEN Default(List(def.payload))
                    ELSE IF rng.ok THEN Range(List(rng.payload))
                    ELSE [ok |-> FALSE, v |-> meta]
            IN  IF t > Len(toks) THEN [ok |-> TRUE, v |-> meta]
                ELSE Attr(parse_attr(toks[t], <<115, 101, 109, 97, 110, 116, 105, 99>> (* "semantic" *)), parse_attr(toks[t], <<100, 101, 102, 97, 117, 108, 116>> (* "default" *)),
                          parse_attr(toks[t], <<114, 97, 110, 103, 101>> (* "range" *)))
        RECURSIVE TextureAttrs(_, _)
        TextureAttrs(t, meta) ==
            LET Semantic(r) ==
                    IF ~r.ok THEN [ok |-> FALSE, v |-> meta]
                    ELSE TextureAttrs(t + 1, [meta EXCEPT !.semantic = r.v])
                Attr(sem) == IF sem.ok THEN Semantic(parse_semantic(sem.payload))
                             ELSE [ok |-> FALSE, v |-> meta]
            IN  IF t > Len(toks) THEN [ok |-> TRUE, v |-> meta]
                ELSE Attr(parse_attr(toks[t], <<115, 101, 109, 97, 110, 116, 105, 99>> (* "semantic" *)))
        Put(S, r) == IF r.ok THEN [ok |-> TRUE, v |-> {x \in S : x.name # r.v.name} \cup {r.v}]
                     ELSE [ok |-> FALSE, v |-> S]
        ThenParams(r)   == IF r.ok THEN Continue([out EXCEPT !.params = r.v]) ELSE ParseError
        ThenTextures(r) == IF r.ok THEN Continue([out EXCEPT !.textures = r.v]) ELSE ParseError
        ThenKeyword(r)  == IF r.ok THEN Continue([out EXCEPT !.keywords = Append(@, r.v)]) ELSE r
        rs == out.renderState
        \* two arguments, both read by Parse
        Two(Parse(_), Set(_, _)) ==
            LET Both(a, b) == IF ~a.ok \/ ~b.ok THEN ParseError ELSE Explicit(Set(a.v, b.v))
            IN  IF Len(toks) < 6 THEN ParseError ELSE Both(Parse(toks[5]), Parse(toks[6]))
        \* one argument
        One(Parse(_), Set(_)) ==
            LET Arg(a) == IF ~a.ok THEN ParseError ELSE Explicit(Set(a.v))
            IN  IF Len(toks) < 5 THEN ParseError ELSE Arg(Parse(toks[5]))
        color_mask(tok) ==
            LET Bit(c) == IF c = 82 THEN 1 ELSE IF c = 71 THEN 2 ELSE IF c = 66 THEN 4 ELSE 8
                RECURSIVE Or(_)
                Or(S) == IF S = {} THEN 0
                         ELSE LET b == CHOOSE x \in S : TRUE IN b + Or(S \ {b})
            IN  [ok |-> \A i \in 1..Len(tok) : tok[i] \in {82, 71, 66, 65},
                 v |-> Or({Bit(tok[i]) : i \in 1..Len(tok)})]
        State(subKeyword) ==
            IF subKeyword = <<66, 108, 101, 110, 100>> (* "Blend" *)
            THEN Two(parse_blend_factor,
                     LAMBDA src, dst : [rs EXCEPT !.blendEnable = TRUE,
                                                  !.srcColor = src, !.dstColor = dst,
                                                  !.srcAlpha = src, !.dstAlpha = dst])
            ELSE IF subKeyword = <<66, 108, 101, 110, 100, 79, 112>> (* "BlendOp" *)
            THEN Two(parse_blend_op,
                     LAMBDA colorOp, alphaOp : [rs EXCEPT !.blendEnable = TRUE,
                                                          !.colorOp = colorOp,
                                                          !.alphaOp = alphaOp])
            ELSE IF subKeyword = <<90, 84, 101, 115, 116>> (* "ZTest" *)
            THEN One(parse_bool_token, LAMBDA v : [rs EXCEPT !.depthTest = v])
            ELSE IF subKeyword = <<90, 87, 114, 105, 116, 101>> (* "ZWrite" *)
            THEN One(parse_bool_token, LAMBDA v : [rs EXCEPT !.depthWrite = v])
            ELSE IF subKeyword = <<67, 111, 109, 112, 97, 114, 101, 79, 112>> (* "CompareOp" *)
            THEN One(parse_compare_op, LAMBDA f : [rs EXCEPT !.depthFunc = f])
            ELSE IF subKeyword = <<67, 117, 108, 108>> (* "Cull" *)
            THEN One(parse_cull, LAMBDA c : [rs EXCEPT !.cull = c])
            ELSE IF subKeyword = <<65, 108, 112, 104, 97, 84, 111, 67, 111, 118, 101, 114, 97, 103, 101>> (* "AlphaToCoverage" *)
            THEN One(parse_bool_token, LAMBDA v : [rs EXCEPT !.alphaToCoverage = v])
            ELSE IF subKeyword = <<67, 111, 108, 111, 114, 77, 97, 115, 107>> (* "ColorMask" *)
            THEN One(color_mask, LAMBDA mask : [rs EXCEPT !.colorMask = mask])
            ELSE IF subKeyword = <<68, 101, 112, 116, 104, 66, 105, 97, 115>> (* "DepthBias" *)
            THEN Two(parse_float,
                     LAMBDA factor, units : [rs EXCEPT !.depthBiasFactor = factor,
                                                       !.depthBiasUnits = units])
            ELSE Continue(out)
    IN  IF Len(toks) < 3 THEN ParseError
        ELSE IF toks[3] = <<109, 97, 116, 101, 114, 105, 97, 108>> (* "material" *) THEN Continue([out EXCEPT !.hasMaterialDecl = TRUE])
        ELSE IF toks[3] = <<112, 97, 114, 97, 109>> (* "param" *)
        THEN IF Len(toks) < 4 THEN ParseError
             ELSE ThenParams(Put(out.params, ParamAttrs(5, NewParam(toks[4]))))
        ELSE IF toks[3] = <<116, 101, 120, 116, 117, 114, 101>> (* "texture" *)
        THEN IF Len(toks) < 4 THEN ParseError
             ELSE ThenTextures(Put(out.textures, TextureAttrs(5, NewTexture(toks[4]))))
        ELSE IF toks[3] = <<114, 101, 110, 100, 101, 114>> (* "render" *) THEN Continue([out EXCEPT !.renderStateExplicit = TRUE])
        ELSE IF toks[3] = <<115, 116, 97, 116, 101>> (* "state" *)
        THEN IF Len(toks) >= 4 THEN State(toks[4])
             ELSE IF beyond = "unknown" THEN Continue(out)
             ELSE IF beyond = "known" THEN ParseError
             ELSE Err(beyond)
        ELSE IF toks[3] = <<107, 101, 121, 119, 111, 114, 100>> (* "keyword" *) THEN ThenKeyword(parse_keyword_directive(toks))
        ELSE ParseError

\* The body of the loop of parse_vultra_metadata: a line without its '\r',
\* left-trimmed, is skipped unless it starts with "#pragma vultra"; its
\* tokens are the pieces between white space.
ParseLine(line, out, beyond) ==
    LET RECURSIVE LeftTrim(_)
        LeftTrim(t) == IF t # <<>> /\ Head(t) \in {9, 10, 11, 12, 13, 32} THEN LeftTrim(Tail(t))
                       ELSE t
        Trimmed(s) ==
            IF ~(Len(s) >= 14 /\ SubSeq(s, 1, 14) = <<35, 112, 114, 97, 103, 109, 97, 32, 118, 117, 108, 116, 114, 97>> (* "#pragma vultra" *)) THEN Ok(out)
            ELSE ParseDirective(SelectSeq(Split(s, {9, 10, 11, 12, 13, 32}), LAMBDA t : t # <<>>),
                                out, beyond)
    IN  Trimmed(LeftTrim(IF line # <<>> /\ line[Len(line)] = 13
                         THEN SubSeq(line, 1, Len(line) - 1) ELSE line))

\* The loop of parse_vultra_metadata over the text that is left: a line
\* ends at the next '\n' or at the end of the text.
RECURSIVE ParseLines(_, _, _)
ParseLines(text, out, beyond) ==
    LET ends == {i \in 1..Len(text) : text[i] = 10}
        j    == IF ends = {} THEN Len(text) + 1
                ELSE CHOOSE i \in ends : \A k \in ends : i <= k
        Then(r) == IF r.ok THEN ParseLines(SubSeq(text, j + 1, Len(text)), r.v, beyond)
                   ELSE r
    IN  IF text = <<>> THEN Ok(out)
        ELSE Then(ParseLine(SubSeq(text, 1, j - 1), out, beyond))

\* A caller whose sources have no three-token `state` line never sees the
\* undefined read.
parse_vultra_metadata(sourceText) == ParseLines(sourceText, DefaultMetadata, "undefined")

\* The shader sources of the model, by the letter that names them: 'a'
\* declares the shader-local permutation keyword A, 'g' the global
\* permutation keyword D, 'r' the runtime keyword R, 'c' the keywords A and
\* B, B with the constraint only_if(A), 'x' the same with a constraint that
\* does not parse, '?' has a `#pragma vultra` line of two tokens, and any
\* other letter is its own text, without a `#pragma vultra` line.
ShaderText(letter) ==
    IF letter = <<97>> THEN <<35, 112, 114, 97, 103, 109, 97, 32, 118, 117, 108, 116, 114, 97, 32, 107, 101, 121, 119, 111, 114, 100, 32, 112, 101, 114, 109, 117, 116, 101, 32, 65, 61, 48, 10>> (* "#pragma vultra keyword permute A=0\n" *)
    ELSE IF letter = <<103>> THEN <<35, 112, 114, 97, 103, 109, 97, 32, 118, 117, 108, 116, 114, 97, 32, 107, 101, 121, 119, 111, 114, 100, 32, 112, 101, 114, 109, 117, 116, 101, 32, 103, 108, 111, 98, 97, 108, 32, 68, 61, 48, 10>> (* "#pragma vultra keyword permute global D=0\n" *)
    ELSE IF letter = <<114>> THEN <<35, 112, 114, 97, 103, 109, 97, 32, 118, 117, 108, 116, 114, 97, 32, 107, 101, 121, 119, 111, 114, 100, 32, 114, 117, 110, 116, 105, 109, 101, 32, 82, 61, 48, 10>> (* "#pragma vultra keyword runtime R=0\n" *)
    ELSE IF letter = <<99>>
    THEN <<35, 112, 114, 97, 103, 109, 97, 32, 118, 117, 108, 116, 114, 97, 32, 107, 101, 121, 119, 111, 114, 100, 32, 112, 101, 114, 109, 117, 116, 101, 32, 65, 61, 48, 10>> (* "#pragma vultra keyword permute A=0\n" *)
         \o <<35, 112, 114, 97, 103, 109, 97, 32, 118, 117, 108, 116, 114, 97, 32, 107, 101, 121, 119, 111, 114, 100, 32, 112, 101, 114, 109, 117, 116, 101, 32, 66, 61, 48, 32, 111, 110, 108, 121, 95, 105, 102, 40, 65, 41, 10>> (* "#pragma vultra keyword permute B=0 only_if(A)\n" *)
    ELSE IF letter = <<120>>
    THEN <<35, 112, 114, 97, 103, 109, 97, 32, 118, 117, 108, 116, 114, 97, 32, 107, 101, 121, 119, 111, 114, 100, 32, 112, 101, 114, 109, 117, 116, 101, 32, 65, 61, 48, 10>> (* "#pragma vultra keyword permute A=0\n" *)
         \o <<35, 112, 114, 97, 103, 109, 97, 32, 118, 117, 108, 116, 114, 97, 32, 107, 101, 121, 119, 111, 114, 100, 32, 112, 101, 114, 109, 117, 116, 101, 32, 66, 61, 48, 32, 111, 110, 108, 121, 95, 105, 102, 40, 65, 61, 61, 41, 10>> (* "#pragma vultra keyword permute B=0 only_if(A==)\n" *)
    ELSE IF letter = <<63>> THEN <<35, 112, 114, 97, 103, 109, 97, 32, 118, 117, 108, 116, 114, 97, 10>> (* "#pragma vultra\n" *)
    ELSE letter

\* glslang is an external library.  Its SPIR-V is modelled as a function of
\* what compile_glsl_to_spirv hands to it: the preamble with one #define
\* per define in order, the text, the stage and the generator options.
\* The text '!' stands for a source glslang rejects.
compile_glsl_to_spirv(input, opt) ==
    LET DefineLine(d) ==
            <<35, 100, 101, 102, 105, 110, 101, 32>> (* "#define " *) \o d.name
            \o (IF d.value = <<>> THEN <<>> ELSE <<32>> \o d.value) \o <<10>>
        build_preamble ==
            <<35, 101, 120, 116, 101, 110, 115, 105, 111, 110, 32, 71, 76, 95, 71, 79, 79, 71, 76, 69, 95, 105, 110, 99, 108, 117, 100, 101, 95, 100, 105, 114, 101, 99, 116, 105, 118, 101, 32, 58, 32, 114, 101, 113, 117, 105, 114, 101, 10>> (* "#extension GL_GOOGLE_include_directive : require\n" *)
            \o <<35, 101, 120, 116, 101, 110, 115, 105, 111, 110, 32, 71, 76, 95, 71, 79, 79, 71, 76, 69, 95, 99, 112, 112, 95, 115, 116, 121, 108, 101, 95, 108, 105, 110, 101, 95, 100, 105, 114, 101, 99, 116, 105, 118, 101, 32, 58, 32, 114, 101, 113, 117, 105, 114, 101, 10>> (* "#extension GL_GOOGLE_cpp_style_line_directive : require\n" *)
            \o Flatten([i \in 1..Len(opt.defines) |-> DefineLine(opt.defines[i])])
    IN  IF input.virtualPath = <<>> THEN Err("eInvalidArgument")
        ELSE IF input.sourceText = <<33>> THEN Err("eCompileError")
        ELSE Ok(<<xxhash64(build_preamble \o input.sourceText, opt.stage % 256),
                  B2I(opt.optimize) + 2 * B2I(opt.debugInfo)
                  + 4 * B2I(opt.stripDebugInfo)>>)

\* SPIRV-Cross is an external library.  The sources of the model declare
\* no descriptor and no block, so their SPIR-V reflects to the default.
reflect_spirv(spirv) == Ok(DefaultReflection)

\* Material synthesis from the reflection and the parsed metadata.
validate_and_build_mdesc(mdesc, refl, meta) ==
    LET hits == {i \in 1..Len(refl.blocks) :
                    ~refl.blocks[i].isPushConstant
                    /\ refl.blocks[i].name = mdesc.materialBlockName}
        matBlock == refl.blocks[CHOOSE i \in hits : \A j \in hits : i <= j]
        ParamOf(mem) ==
            LET found == {pm \in meta.params : pm.name = mem.name}
                pm    == CHOOSE x \in found : TRUE
                def   == found # {} /\ pm.hasDefault
                rng   == found # {} /\ pm.hasRange
            IN  [name |-> mem.name, type |-> mem.type, offset |-> mem.offset,
                 size |-> mem.size,
                 semantic |-> IF found = {} THEN 0 ELSE pm.semantic,
                 hasDefault |-> def,
                 defaultValue |->
                    IF def THEN [type |-> mem.type,
                                 valueBuffer |-> pm.defaultValue.valueBuffer]
                    ELSE [type |-> 0, valueBuffer |-> Zeros(64)],
                 hasRange |-> rng,
                 range |-> IF rng THEN pm.range
                           ELSE [min |-> Zeros(8), max |-> <<0, 0, 0, 0, 0, 0, 240, 63>>]]
        \* eSampledImage = 2, eCombinedImageSampler = 5; TextureType::eUnknown = 4
        IsTexture(d) == d.kind \in {2, 5}
        TextureOf(d) ==
            LET found == {tm \in meta.textures : tm.name = d.name}
            IN  [name |-> d.name, type |-> 4, set |-> d.set, binding |-> d.binding,
                 count |-> d.count,
                 semantic |-> IF found = {} THEN 0 ELSE (CHOOSE x \in found : TRUE).semantic]
        textures == SelectSeq(refl.descriptors, IsTexture)
        paramsFound ==
            \A pm \in meta.params :
                \E i \in 1..Len(matBlock.members) : matBlock.members[i].name = pm.name
        texturesFound ==
            \A tm \in meta.textures :
                \E i \in 1..Len(refl.descriptors) : refl.descriptors[i].name = tm.name
    IN  IF hits = {}
        THEN IF ~texturesFound THEN Err("eParseError")
             ELSE Ok([mdesc EXCEPT !.materialParamSize = 0, !.params = <<>>])
        ELSE IF ~paramsFound \/ ~texturesFound THEN Err("eParseError")
        ELSE Ok([mdesc EXCEPT
                    !.materialParamSize = matBlock.size,
                    !.params = [i \in 1..Len(matBlock.members) |->
                                   ParamOf(matBlock.members[i])],
                    !.textures = [i \in 1..Len(textures) |-> TextureOf(textures[i])],
                    !.renderState = meta.renderState])

\* build_shader(req) over the files of the cache directory: files maps the
\* build hash that names a cache file to the bytes of that file.  The
\* result is the Result<BuildResult> and the files afterwards.
build_shader(req, files) ==
    LET Parsed(metaR) ==
            LET Return(res, fs) == [res |-> res, files |-> fs]
                \* The steps after the metadata parse, each on the results before it:
                \* the cache lookup, compile, reflect, the variant hash, the material
                \* description, and (void)write_vshbin_file into the cache.
                Outcome(sourceHash, buildHash, cached, c, r, vh, vr, bytes) ==
                    IF cached.ok THEN Return(Ok([binary |-> cached.v, fromCache |-> TRUE]), files)
                    ELSE IF ~c.ok THEN Return(Err(c.code), files)
                    ELSE IF ~r.ok THEN Return(Err(r.code), files)
                    ELSE IF ~vh.ok THEN Return(Err(vh.code), files)
                    ELSE IF ~vr.ok THEN Return(Err(vr.code), files)
                    ELSE Return(Ok([binary |-> bytes.bin, fromCache |-> FALSE]),
                                IF req.enableCache /\ bytes.image.ok
                                THEN [h \in DOMAIN files \cup {buildHash} |->
                                         IF h = buildHash THEN bytes.image.v ELSE files[h]]
                                ELSE files)
                Written(binary) == [bin |-> binary, image |-> write_vshbin(binary)]
                Binary(sourceHash, c, r, vh, vr) ==
                    Written([DefaultShaderBinary EXCEPT
                                !.stage = req.options.stage, !.spirv = c.v,
                                !.spirvHash = xxhash64_words(c.v),
                                !.contentHash = sourceHash, !.reflection = r.v,
                                !.variantHash = vh.v, !.materialDesc = vr.v])
                Steps(sourceHash, buildHash, cached, c, r, vh, vr) ==
                    Outcome(sourceHash, buildHash, cached, c, r, vh, vr,
                            Binary(sourceHash, c, r, vh, vr))
                c     == compile_glsl_to_spirv(req.source, req.options)
                r     == IF c.ok THEN reflect_spirv(c.v) ELSE c
                \* buildHash names the cache file; sourceHash = xxhash64(sourceText)
                WithHashes(sourceHash, buildHash) ==
                    Steps(sourceHash, buildHash,
                          \* read_vshbin_file(cache_path(cacheDir, buildHash))
                          IF req.enableCache /\ buildHash \in DOMAIN files
                          THEN read_vshbin(files[buildHash])
                          ELSE Err("eIO"),
                          c, r,
                          \* kw = hasEngineKeywords ? &engineKeywords : nullptr
                          compute_variant_hash(metaR.v.keywords, req.options,
                                               [has |-> req.hasEngineKeywords,
                                                values |-> req.engineKeywords.values],
                                               sourceHash),
                          IF r.ok
                          THEN validate_and_build_mdesc(DefaultMaterialDescription, r.v, metaR.v)
                          ELSE r)
            IN  IF ~metaR.ok THEN Return(Err(metaR.code), files)
                ELSE WithHashes(xxhash64(req.source.sourceText, 0),
                                compute_build_hash(req.source, req.options, metaR.v))
    IN  Parsed(parse_vultra_metadata(req.source.sourceText))

\* build_from_spirv; r is what reflect_spirv returns for the SPIR-V.  The
\* description is built from the reflection of the new binary, which gets r's value only
\* after the call of validate_and_build_mdesc.
build_from_spirv(spirv, stage, r) ==
    LET out == [DefaultShaderBinary EXCEPT !.stage = stage, !.spirv = spirv,
                                           !.spirvHash = xxhash64_words(spirv),
                                           !.contentHash = xxhash64_words(spirv)]
        Described(vr) ==
            IF ~vr.ok THEN vr
            ELSE Ok([out EXCEPT !.reflection = r.v, !.materialDesc = vr.v])
    IN  IF ~r.ok THEN r
        ELSE Described(validate_and_build_mdesc(DefaultMaterialDescription, out.reflection,
                                                DefaultMetadata))

\* ------------------------------------------------------------------------
\* keyword_expr.cpp: eval_only_if.  A KeywordValueContext is [values,
\* decls]: values maps a keyword name to its number, decls is the
\* declarations in the order the unordered_map of the context iterates.
\* A token is [kind, text, i], i being the position of the lexer after it.
\* ------------------------------------------------------------------------
\* First position from i on (past the end if none) whose character is not
\* of the class.
RECURSIVE Span(_, _, _)
Span(s, i, class) == IF i <= Len(s) /\ s[i] \in class THEN Span(s, i + 1, class) ELSE i

\* Lexer::next.  A character that starts no token ends the input.
Lexer_next(s, i0) ==
    LET Spaces == {32, 9, 10, 11, 12, 13}
        Digits == 48..57
        Alpha  == (65..90) \cup (97..122) \cup {95}
        Token(kind, i, j) == [kind |-> kind, text |-> SubSeq(s, i, j - 1), i |-> j]
        \* the token at i, the first position after the white space
        At_(i, c, pair) ==
            IF i > Len(s) THEN [kind |-> "eEnd", text |-> <<>>, i |-> i]
            ELSE IF c = 40 THEN Token("eLParen", i, i + 1)
            ELSE IF c = 41 THEN Token("eRParen", i, i + 1)
            ELSE IF pair = <<61, 61>> THEN Token("eEqEq", i, i + 2)
            ELSE IF pair = <<33, 61>> THEN Token("eNotEq", i, i + 2)
            ELSE IF pair = <<38, 38>> THEN Token("eAndAnd", i, i + 2)
            ELSE IF pair = <<124, 124>> THEN Token("eOrOr", i, i + 2)
            ELSE IF c \in Digits THEN Token("eNumber", i, Span(s, i, Digits))
            ELSE IF c \in Alpha THEN Token("eIdent", i, Span(s, i + 1, Alpha \cup Digits))
            ELSE [kind |-> "eEnd", text |-> <<>>, i |-> i + 1]
        Skipped(i) == At_(i, s[i], IF i + 1 <= Len(s) THEN <<s[i], s[i + 1]>> ELSE <<>>)
    IN  Skipped(Span(s, i0, Spaces))

\* Parser::resolveIdent: true/false, then a keyword's value, then the index
\* of the enumerant in the first enum declaration that has it.
resolveIdent(name, ctx) ==
    LET hits == {h \in UNION {{<<d, e>> : e \in 1..Len(ctx.decls[d].enumValues)} :
                                 d \in 1..Len(ctx.decls)} :
                    /\ ctx.decls[h[1]].kind = 1
                    /\ ctx.decls[h[1]].enumValues[h[2]] = name}
        first == CHOOSE h \in hits :
                    \A g \in hits : h[1] < g[1] \/ (h[1] = g[1] /\ h[2] <= g[2])
    IN  IF name \in {<<116, 114, 117, 101>> (* "true" *), <<84, 82, 85, 69>> (* "TRUE" *), <<84, 114, 117, 101>> (* "True" *)} THEN Ok(1)
        ELSE IF name \in {<<102, 97, 108, 115, 101>> (* "false" *), <<70, 65, 76, 83, 69>> (* "FALSE" *), <<70, 97, 108, 115, 101>> (* "False" *)} THEN Ok(0)
        ELSE IF name \in DOMAIN ctx.values THEN Ok(ctx.values[name])
        ELSE IF hits # {} THEN Ok(first[2] - 1)
        ELSE Err("eParseError")

\* The parser over the text s from the token cur on.  A result is
\* [ok, v, cur]: the value and the token after what was parsed.
ParseError == [ok |-> FALSE, v |-> 0, cur |-> [kind |-> "eEnd", text |-> <<>>, i |-> 0]]

RECURSIVE parsePrimaryValue(_, _, _), parseCmp(_, _, _), parseAnd(_, _, _, _),
          parseOr(_, _, _, _)

parsePrimaryValue(s, cur, ctx) ==
    LET Value(v, from) == [ok |-> TRUE, v |-> v, cur |-> Lexer_next(s, from)]
        Ident(id) == IF id.ok THEN Value(id.v, cur.i) ELSE ParseError
        Paren(r) == IF ~r.ok \/ r.cur.kind # "eRParen" THEN ParseError
                    ELSE Value(B2I(r.v), r.cur.i)
    IN  IF cur.kind = "eIdent" THEN Ident(resolveIdent(cur.text, ctx))
        ELSE IF cur.kind = "eNumber" THEN Value(DigitsValue(cur.text, 0), cur.i)
        ELSE IF cur.kind = "eLParen" THEN Paren(parseOr(s, Lexer_next(s, cur.i), ctx, FALSE))
        ELSE ParseError

\* A cmp whose primary without an operator is true only when it is 1.
parseCmpOnlyOneIsTrue(s, cur, ctx) ==
    LET Compared(lhs, rhs) ==
            IF ~rhs.ok THEN ParseError
            ELSE [ok |-> TRUE, v |-> (lhs.cur.kind = "eEqEq") = (lhs.v = rhs.v),
                  cur |-> rhs.cur]
        Lhs(lhs) ==
            IF ~lhs.ok THEN ParseError
            ELSE IF lhs.cur.kind \in {"eEqEq", "eNotEq"}
            THEN Compared(lhs, parsePrimaryValue(s, Lexer_next(s, lhs.cur.i), ctx))
            ELSE [ok |-> TRUE, v |-> lhs.v = 1, cur |-> lhs.cur]
    IN  Lhs(parsePrimaryValue(s, cur, ctx))
\* cmp := primary ( ('==' | '!=') primary )?
parseCmp(s, cur, ctx) ==
    LET Compared(lhs, rhs) ==
            IF ~rhs.ok THEN ParseError
            ELSE [ok |-> TRUE, v |-> (lhs.cur.kind = "eEqEq") = (lhs.v = rhs.v),
                  cur |-> rhs.cur]
        Lhs(lhs) ==
            IF ~lhs.ok THEN ParseError
            ELSE IF lhs.cur.kind \in {"eEqEq", "eNotEq"}
            THEN Compared(lhs, parsePrimaryValue(s, Lexer_next(s, lhs.cur.i), ctx))
            ELSE [ok |-> TRUE, v |-> lhs.v # 0, cur |-> lhs.cur]
    IN  Lhs(parsePrimaryValue(s, cur, ctx))

\* v = v && rhs over the operands, v being the value so far
parseAnd(s, cur, ctx, v) ==
    LET Operand(r) ==
            IF ~r.ok THEN ParseError
            ELSE IF r.cur.kind = "eAndAnd"
            THEN parseAnd(s, Lexer_next(s, r.cur.i), ctx, v /\ r.v)
            ELSE [r EXCEPT !.v = v /\ r.v]
    IN  Operand(parseCmp(s, cur, ctx))

\* v = v || rhs over the operands
parseOr(s, cur, ctx, v) ==
    LET Operand(r) ==
            IF ~r.ok THEN ParseError
            ELSE IF r.cur.kind = "eOrOr"
            THEN parseOr(s, Lexer_next(s, r.cur.i), ctx, v \/ r.v)
            ELSE [r EXCEPT !.v = v \/ r.v]
    IN  Operand(parseAnd(s, cur, ctx, TRUE))

parseExprBool(s, cur, ctx) == parseOr(s, cur, ctx, FALSE)

\* "only_if(expr)" or "expr", trimmed: the text between the first '(' and
\* the last ')' when the constraint starts with only_if.
stripOnlyIf(s0) ==
    LET Spaces == {32, 9, 10, 11, 12, 13}
        Min(S) == CHOOSE i \in S : \A j \in S : i <= j
        Max(S) == CHOOSE i \in S : \A j \in S : j <= i
        Between(v, a, ends) == IF ends = {} THEN <<>> ELSE SubSeq(v, a, Max(ends))
        From(v, a) == Between(v, a, {b \in a..Len(v) : v[b] \notin Spaces})
        trim(v) == From(v, Span(v, 1, Spaces))
        Inner(s, lps, rps) ==
            IF /\ Len(s) >= 7 /\ SubSeq(s, 1, 7) = <<111, 110, 108, 121, 95, 105, 102>> (* "only_if" *)
               /\ lps # {} /\ rps # {} /\ Max(rps) > Min(lps)
            THEN trim(SubSeq(s, Min(lps) + 1, Max(rps) - 1))
            ELSE s
        Trimmed(s) == Inner(s, {i \in 1..Len(s) : s[i] = 40}, {i \in 1..Len(s) : s[i] = 41})
    IN  Trimmed(trim(s0))

eval_only_if(constraint, ctx) ==
    LET Parsed(r) ==
            IF ~r.ok THEN Err("eParseError")
            ELSE IF r.cur.kind # "eEnd" THEN Err("eParseError")
            ELSE Ok(r.v)
        Stripped(expr) ==
            IF expr = <<>> THEN Ok(TRUE)
            ELSE Parsed(parseExprBool(expr, Lexer_next(expr, 1), ctx))
    IN  Stripped(stripOnlyIf(constraint))

\* ========================================================================
\* SpecBin: a .vshbin is written, possibly altered on disk, and read back
\* ========================================================================
\* The binaries handed to write_vshbin.  The spirvHash is 0 (unverified),
\* the hash of the words, or a value that is not the hash of the words.
InitBin ==
    LET Block(size, push, members) ==
            [name |-> <<77>>, set |-> 0, binding |-> 0, size |-> size,
             isPushConstant |-> push, stageFlags |-> 2, members |-> members]
        ReflInputs ==
            { DefaultReflection,
              [DefaultReflection EXCEPT !.descriptors =
                  <<[name |-> <<97>>, set |-> 0, binding |-> 1, count |-> 1, kind |-> 5,
                     stageFlags |-> 2, runtimeSized |-> FALSE]>>],
              [DefaultReflection EXCEPT !.blocks =
                  <<Block(16, FALSE, <<[name |-> <<98>>, offset |-> 0, size |-> 16,
                                        type |-> 3]>>)>>],
              [DefaultReflection EXCEPT !.blocks =
                  <<Block(4, FALSE, <<[name |-> <<98>>, offset |-> 0, size |-> 4,
                                       type |-> 0]>>)>>],
              [DefaultReflection EXCEPT !.hasLocalSize = TRUE, !.localSizeX = 8,
                                        !.localSizeY = 4],
              [DefaultReflection EXCEPT
                  !.descriptors =
                     <<[name |-> <<>>, set |-> 1, binding |-> 0, count |-> 0, kind |-> 0,
                        stageFlags |-> 4, runtimeSized |-> TRUE]>>,
                  !.blocks = <<Block(64, TRUE, <<>>)>>] }
        MdescInputs ==
            { DefaultMaterialDescription,
              [DefaultMaterialDescription EXCEPT
                  !.materialParamSize = 16,
                  !.renderState.blendEnable = TRUE, !.renderState.cull = 0,
                  !.renderState.srcColor = 6, !.renderState.dstColor = 7,
                  !.renderState.depthBiasFactor = <<0, 0, 128, 63>>,
                  !.params =
                     <<[name |-> <<98>>, type |-> 3, offset |-> 0, size |-> 16,
                        semantic |-> 1, hasDefault |-> TRUE,
                        defaultValue |->
                           [type |-> 3,
                            valueBuffer |-> [i \in 1..64 |->
                                               IF i \in {3, 4} THEN 63 + i ELSE 0]],
                        hasRange |-> FALSE,
                        range |-> [min |-> Zeros(8),
                                   max |-> <<0, 0, 0, 0, 0, 0, 240, 63>>]]>>],
              [DefaultMaterialDescription EXCEPT
                  !.materialBlockName = <<>>,
                  !.params =
                     <<[name |-> <<99>>, type |-> 0, offset |-> 4, size |-> 4,
                        semantic |-> 9, hasDefault |-> FALSE,
                        defaultValue |-> [type |-> 0, valueBuffer |-> Zeros(64)],
                        hasRange |-> TRUE,
                        range |-> [min |-> <<0, 0, 0, 0, 0, 0, 240, 63>>,
                                   max |-> Zeros(8)]]>>,
                  !.textures =
                     <<[name |-> <<97>>, type |-> 4, set |-> 0, binding |-> 1,
                        count |-> 1, semantic |-> 1]>>] }
        HashChoice(sp, h) ==
            IF h = 0 THEN 0
            ELSE IF h = 1 THEN xxhash64_words(sp)
            ELSE (xxhash64_words(sp) + 1) % HashRange
    IN  /\ bin \in { [contentHash |-> c, spirvHash |-> HashChoice(sp, h),
                      shaderIdHash |-> si, variantHash |-> vh, stage |-> st,
                      reflection |-> r, materialDesc |-> m, spirv |-> sp] :
                        c \in {0, 5}, si \in {0, 9}, vh \in {0, 11}, st \in {0, 2},
                        r \in ReflInputs, m \in MdescInputs,
                        sp \in {<<>>, <<7>>, <<7, 300>>}, h \in {0, 1, 2} }
        /\ image = <<>>
        /\ imgHash = 0
        /\ imgWords = <<>>
        /\ rd = Err("none")
        /\ binpc = "init"
        /\ Idle("bin")

\* write_vshbin(bin); on success the image is what lies on disk.
DoWrite ==
    /\ binpc = "init"
    /\ LET w == write_vshbin(bin)
       IN  IF w.ok
           THEN /\ image' = w.v
                /\ imgHash' = bin.spirvHash
                /\ imgWords' = bin.spirv
                /\ binpc' = "written"
           ELSE /\ binpc' = "werr"
                /\ UNCHANGED <<image, imgHash, imgWords>>
    /\ UNCHANGED <<bin, rd>>
    /\ UNCHANGED <<libVars, varVars, bldVars, fileVars, cookVars, rdVars, matVars, exprVars, metaVars, lrVars>>

\* The file is altered on disk and stays well-formed: the header spirvHash
\* (at offset 24) or one word of the SPRV payload is overwritten.
Tamper ==
    LET Splice(buf, off, repl) ==
            SubSeq(buf, 1, off) \o repl \o SubSeq(buf, off + Len(repl) + 1, Len(buf))
        \* header, the optional SIDH and VKEY chunks, the SPRV tag and size
        sprv == 32 + (IF bin.shaderIdHash # 0 THEN 16 ELSE 0)
                   + (IF bin.variantHash # 0 THEN 16 ELSE 0) + 8
    IN  /\ binpc = "written"
        /\ \/ \E h \in {0, xxhash64_words(imgWords),
                        (xxhash64_words(imgWords) + 3) % HashRange} :
                 /\ h # imgHash
                 /\ image' = Splice(image, 24, write_u64(h))
                 /\ imgHash' = h
                 /\ imgWords' = imgWords
           \/ \E i \in 1..Len(imgWords), w \in {7, 8} :
                 /\ w # imgWords[i]
                 /\ image' = Splice(image, sprv + 4 * (i - 1), write_u32(w))
                 /\ imgWords' = [imgWords EXCEPT ![i] = w]
                 /\ imgHash' = imgHash
        /\ binpc' = "tampered"
        /\ UNCHANGED <<bin, rd>>
        /\ UNCHANGED <<libVars, varVars, bldVars, fileVars, cookVars, rdVars, matVars, exprVars, metaVars, lrVars>>

DoRead ==
    /\ binpc \in {"written", "tampered"}
    /\ rd' = read_vshbin(image)
    /\ binpc' = IF binpc = "written" THEN "read" ELSE "readTampered"
    /\ UNCHANGED <<bin, image, imgHash, imgWords>>
    /\ UNCHANGED <<libVars, varVars, bldVars, fileVars, cookVars, rdVars, matVars, exprVars, metaVars, lrVars>>

NextBin == DoWrite \/ Tamper \/ DoRead

\* ========================================================================
\* SpecLib: write_vslib step by step on the output path, then read_vslib
\* and extract_vslib_blob on what the path holds
\* ========================================================================
\* Longest entry list handed to write_vslib.
MaxEntries == 3

\* Entry lists in any order, repeated keys included, with an entry of
\* keyHash 0 and one of unknown stage among the choices.  The output path
\* is absent or holds a complete library left by an earlier run.
InitLib ==
    LET LibEntry(k, s, b) == [keyHash |-> k, stage |-> s, blob |-> b]
        EntryInputs ==
            {LibEntry(k, s, b) : k \in {3, 7}, s \in {0, 1}, b \in {<<1>>, <<2, 3>>}}
            \cup {LibEntry(3, 0, <<>>), LibEntry(0, 0, <<1>>),
                  LibEntry(3, StageUnknown, <<1>>)}
    IN  /\ inEntries \in UNION {[1..n -> EntryInputs] : n \in 0..MaxEntries}
        /\ kwIn \in {[present |-> FALSE, data |-> <<>>],
                     [present |-> TRUE, data |-> <<>>],
                     [present |-> TRUE, data |-> <<115, 10>>]}
        /\ disk0 \in {"absent",
                      Flatten(VslibParts(<<LibEntry(5, 1, <<9>>)>>,
                                         [present |-> FALSE, data |-> <<>>]))}
        /\ disk = disk0
        /\ sorted = <<>>
        /\ wparts = <<>>
        /\ wres = Err("none")
        /\ lib = Err("none")
        /\ ext = [keyHash |-> 0, stage |-> 0, res |-> Err("none")]
        /\ libpc = "init"
        /\ Idle("lib")

\* write_vslib up to and including the opening of the output file: sort,
\* validate every entry, build header and TOC, then std::ofstream f(filePath),
\* which leaves an empty file at the output path.
WriteBegin ==
    /\ libpc = "init"
    /\ \E s \in SortOutcomes(EntryLess, inEntries) :
          IF ~EntriesValid(s)
          THEN /\ wres' = Err("eInvalidArgument")
               /\ libpc' = "werr"
               /\ UNCHANGED <<disk, sorted, wparts>>
          ELSE \/ /\ wres' = Err("eIO")            \* the file cannot be opened
                  /\ libpc' = "werr"
                  /\ UNCHANGED <<disk, sorted, wparts>>
               \/ /\ sorted' = s
                  /\ wparts' = VslibParts(s, kwIn)
                  /\ disk' = <<>>
                  /\ libpc' = "writing"
                  /\ UNCHANGED wres
    /\ UNCHANGED <<inEntries, kwIn, disk0, lib, ext>>
    /\ UNCHANGED <<binVars, varVars, bldVars, fileVars, cookVars, rdVars, matVars, exprVars, metaVars, lrVars>>

\* One write_all call: header, blobs, TOC, keywords, in that order.
WriteStep ==
    /\ libpc = "writing"
    /\ \/ /\ disk' = disk \o Head(wparts)
          /\ wparts' = Tail(wparts)
          /\ IF Tail(wparts) = <<>>
             THEN wres' = Ok(<<>>) /\ libpc' = "written"
             ELSE UNCHANGED <<wres, libpc>>
       \/ /\ wres' = Err("eIO")                    \* the stream went bad
          /\ libpc' = "werr"
          /\ UNCHANGED <<disk, wparts>>
    /\ UNCHANGED <<inEntries, kwIn, disk0, sorted, lib, ext>>
    /\ UNCHANGED <<binVars, varVars, bldVars, fileVars, cookVars, rdVars, matVars, exprVars, metaVars, lrVars>>

ReadLib ==
    /\ libpc = "written"
    /\ lib' = read_vslib(disk)
    /\ libpc' = "readback"
    /\ UNCHANGED <<inEntries, kwIn, disk, disk0, sorted, wparts, wres, ext>>
    /\ UNCHANGED <<binVars, varVars, bldVars, fileVars, cookVars, rdVars, matVars, exprVars, metaVars, lrVars>>

Extract ==
    /\ libpc = "readback"
    /\ lib.ok
    /\ \E k \in {3, 5, 7}, s \in {0, 1} :
          ext' = [keyHash |-> k, stage |-> s, res |-> extract_vslib_blob(lib.v, k, s)]
    /\ libpc' = "extracted"
    /\ UNCHANGED <<inEntries, kwIn, disk, disk0, sorted, wparts, wres, lib>>
    /\ UNCHANGED <<binVars, varVars, bldVars, fileVars, cookVars, rdVars, matVars, exprVars, metaVars, lrVars>>

NextLib == WriteBegin \/ WriteStep \/ ReadLib \/ Extract

\* ========================================================================
\* SpecVar: the build side computes the variant hash, directly or after
\* cmd_cook has resolved the constraint context of the same request; the
\* runtime side makes a VariantKey for the same hash, stage and keyword
\* values
\* ========================================================================
\* Most keywords a shader declares.
MaxKeywords == 3

\* Keyword lists in every declaration order (names A, B, C, D, one
\* declaration per name; C is a runtime keyword), define lists with
\* repeated, empty, numeric (2^32 and 2^32 + 2 among them), named and
\* invalid values, and the engine
\* keywords absent, empty or setting B, D and A.
InitVar ==
    LET Decl(n, dp, sc, kd, dv, ev) ==
            [name |-> n, dispatch |-> dp, scope |-> sc, kind |-> kd,
             defaultValue |-> dv, enumValues |-> ev, constraint |-> <<>>]
        DeclChoices(n) ==
            IF n = <<65>> THEN {Decl(n, 0, 0, 0, d, <<>>) : d \in {0, 1}}
            ELSE IF n = <<66>> THEN {Decl(n, 0, 1, 1, 0, <<<<88>>, <<89>>, <<90>>>>)}
            ELSE IF n = <<67>> THEN {Decl(n, 1, 0, 0, 1, <<>>)}
            ELSE {Decl(n, 0, 1, 0, 0, <<>>)}
        Names == {<<65>>, <<66>>, <<67>>, <<68>>}
        Def(n, v) == [name |-> n, value |-> v]
    IN  /\ kwList \in
              UNION { UNION { {[i \in 1..Len(p) |-> f[p[i]]] :
                                  f \in {g \in [ns -> UNION {DeclChoices(n) : n \in ns}] :
                                            \A n \in ns : g[n] \in DeclChoices(n)}} :
                              p \in Perms(ns) } :
                      ns \in {S \in SUBSET Names : Cardinality(S) <= MaxKeywords} }
        /\ vOpt \in {[stage |-> s, defines |-> d] :
                        s \in {0, 1},
                        d \in {<<>>, <<Def(<<65>>, <<49>>)>>, <<Def(<<65>>, <<>>)>>,
                               <<Def(<<66>>, <<89>>)>>,
                               <<Def(<<66>>, <<50>>), Def(<<65>>, <<48>>)>>,
                               <<Def(<<66>>, <<57>>)>>,
                               <<Def(<<66>>, <<52, 50, 57, 52, 57, 54, 55, 50, 57, 54>> (* "4294967296" *))>>,
                               <<Def(<<66>>, <<52, 50, 57, 52, 57, 54, 55, 50, 57, 56>> (* "4294967298" *))>>,
                               <<Def(<<65>>, <<49>>), Def(<<65>>, <<48>>)>>,
                               <<Def(<<65>>, <<120>>)>>}}
        /\ vEngineKw \in {[has |-> FALSE, values |-> {}], [has |-> TRUE, values |-> {}],
                          [has |-> TRUE,
                           values |-> {Def(<<66>>, <<90>>), Def(<<68>>, <<49>>),
                                       Def(<<65>>, <<49>>)}]}
        /\ srcHash \in {0, 42}
        /\ ctxValues = Err("none")
        /\ buildSide = Err("none")
        /\ vkey = [m_ShaderIdHash |-> 0, m_Stage |-> StageUnknown, m_Entries |-> <<>>]
        /\ toSet = {}
        /\ keySet = {}
        /\ rt = 0
        /\ vpc = "init"
        /\ Idle("var")

\* The request as cmd_cook makes it, before build_shader is called: the
\* engine values of the global permutation keywords are injected as
\* defines, and every keyword is resolved into ctx.values, by name; an
\* invalid value ends the run.
ResolveContext ==
    LET Last(S) == CHOOSE i \in S : \A j \in S : j <= i
        Values(vals) ==
            IF \E i \in 1..Len(vals) : ~vals[i].ok THEN Err("invalid keyword value")
            ELSE Ok([n \in {kwList[j].name : j \in 1..Len(kwList)} |->
                        vals[Last({j \in 1..Len(kwList) : kwList[j].name = n})].v])
        Injected(defines) ==
            /\ vOpt' = [vOpt EXCEPT !.defines = defines]
            /\ ctxValues' = Values([i \in 1..Len(kwList) |->
                                       ContextValue(kwList[i], defines, vEngineKw)])
    IN  /\ vpc = "init"
        /\ Injected(InjectGlobals(kwList, vOpt.defines,
                                  IF vEngineKw.has THEN vEngineKw.values ELSE {}))
        /\ vpc' = IF ctxValues'.ok THEN "ctx" ELSE "ctxerr"
        /\ UNCHANGED <<kwList, vEngineKw, srcHash, buildSide, vkey, toSet, keySet, rt>>
        /\ UNCHANGED <<binVars, libVars, bldVars, fileVars, cookVars, rdVars, matVars, exprVars, metaVars, lrVars>>

\* compute_variant_hash, called directly or by the build_shader of the cook
\* run; toSet becomes the (name, value) pairs the
\* permutation keywords resolved to, which the runtime side is to set.
ComputeVariantHash ==
    LET perm == PermutationKeywords(kwList)
    IN  /\ vpc \in {"init", "ctx"}
        /\ buildSide' = compute_variant_hash(kwList, vOpt, vEngineKw, srcHash)
        /\ IF buildSide'.ok
           THEN /\ toSet' = {[name |-> perm[i].name,
                              value |-> ResolveKeywordValue(perm[i], vOpt.defines,
                                                            vEngineKw).v] :
                                 i \in 1..Len(perm)}
                /\ vpc' = IF vpc = "ctx" THEN "cooked" ELSE "computed"
           ELSE /\ toSet' = {}
                /\ vpc' = "cverr"
        /\ UNCHANGED <<kwList, vOpt, vEngineKw, srcHash, ctxValues, vkey, keySet, rt>>
        /\ UNCHANGED <<binVars, libVars, bldVars, fileVars, cookVars, rdVars, matVars, exprVars, metaVars, lrVars>>

\* VariantKey::setShaderIdHash(h) or VariantKey::setStage(s).
SetKeyField ==
    /\ vpc = "computed"
    /\ \/ /\ "id" \notin keySet
          /\ vkey' = [vkey EXCEPT !.m_ShaderIdHash = srcHash]
          /\ keySet' = keySet \cup {"id"}
       \/ /\ "stage" \notin keySet
          /\ vkey' = [vkey EXCEPT !.m_Stage = vOpt.stage]
          /\ keySet' = keySet \cup {"stage"}
    /\ UNCHANGED <<kwList, vOpt, vEngineKw, srcHash, ctxValues, buildSide, toSet, rt, vpc>>
    /\ UNCHANGED <<binVars, libVars, bldVars, fileVars, cookVars, rdVars, matVars, exprVars, metaVars, lrVars>>

\* One VariantKey::set(name, value) call, for any pair not set yet.
SetKeyword ==
    /\ vpc = "computed"
    /\ \E pr \in toSet :
          /\ vkey' = [vkey EXCEPT !.m_Entries =
                         Append(@, [nameHash |-> xxhash64(pr.name, 0), value |-> pr.value])]
          /\ toSet' = toSet \ {pr}
    /\ UNCHANGED <<kwList, vOpt, vEngineKw, srcHash, ctxValues, buildSide, keySet, rt, vpc>>
    /\ UNCHANGED <<binVars, libVars, bldVars, fileVars, cookVars, rdVars, matVars, exprVars, metaVars, lrVars>>

BuildKey ==
    /\ vpc = "computed"
    /\ toSet = {}
    /\ keySet = {"id", "stage"}
    /\ rt' = VariantKey_build(vkey)
    /\ vpc' = "built"
    /\ UNCHANGED <<kwList, vOpt, vEngineKw, srcHash, ctxValues, buildSide, vkey, toSet, keySet>>
    /\ UNCHANGED <<binVars, libVars, bldVars, fileVars, cookVars, rdVars, matVars, exprVars, metaVars, lrVars>>

NextVar == ResolveContext \/ ComputeVariantHash \/ SetKeyField \/ SetKeyword \/ BuildKey

\* ========================================================================
\* SpecBuild: a sequence of build_shader calls over one cache directory
\* ========================================================================
\* Most build_shader calls in a run.
MaxBuilds == 2

InitBuild ==
    /\ lastReq = "none"
    /\ lastRes = Err("none")
    /\ cacheFiles = <<>>
    /\ cacheBy = <<>>
    /\ builds = 0
    /\ Idle("bld")

\* One build_shader call.  The requests: the source 'a' (keyword A) under
\* two stages, with and without a define of A and debug info; the source
\* 'g' (global keyword D) with and without engine keywords that set D; the
\* source 'r' (runtime keyword R only) and the source 'n' (no keyword); a
\* source that does not parse and one that does not compile; each with the
\* cache on or off.
BuildShader ==
    LET Request(text, stage, defines, debug, hasKw, cache) ==
            [source |-> [virtualPath |-> <<115, 47, 112, 98, 114, 46, 102, 114, 97, 103, 46, 118, 115, 104, 97, 100, 101, 114>> (* "s/pbr.frag.vshader" *), sourceText |-> ShaderText(text)],
             options |-> [stage |-> stage, optimize |-> FALSE, debugInfo |-> debug,
                          stripDebugInfo |-> FALSE, defines |-> defines,
                          includeDirs |-> <<<<105, 110, 99>> (* "inc" *)>>],
             hasEngineKeywords |-> hasKw,
             engineKeywords |->
                [values |-> IF hasKw THEN {[name |-> <<68>>, value |-> <<49>>]} ELSE {}],
             enableCache |-> cache]
        Requests ==
            {Request(<<97>>, s, d, g, FALSE, c) :
                s \in {0, 1}, d \in {<<>>, <<[name |-> <<65>>, value |-> <<49>>]>>},
                g \in BOOLEAN, c \in BOOLEAN}
            \cup {Request(<<103>>, s, <<>>, FALSE, k, c) :
                     s \in {0, 1}, k \in BOOLEAN, c \in BOOLEAN}
            \cup {Request(t, s, <<>>, FALSE, FALSE, c) :
                     t \in {<<114>>, <<110>>}, s \in {0, 1}, c \in BOOLEAN}
            \cup {Request(t, 1, <<>>, FALSE, FALSE, TRUE) : t \in {<<63>>, <<33>>}}
        \* cacheBy: a build that is not a cache hit and stores its binary
        \* makes a new cache file (an existing one would have been the hit).
        Call(r, out) ==
            /\ lastReq' = r
            /\ lastRes' = out.res
            /\ cacheFiles' = out.files
            /\ cacheBy' = [k \in DOMAIN out.files |->
                              IF k \in DOMAIN cacheBy THEN cacheBy[k] ELSE r]
    IN  /\ builds < MaxBuilds
        /\ \E r \in Requests : Call(r, build_shader(r, cacheFiles))
        /\ builds' = builds + 1
        /\ UNCHANGED <<binVars, libVars, varVars, fileVars, cookVars, rdVars, matVars, exprVars, metaVars, lrVars>>

NextBuild == BuildShader

\* ========================================================================
\* SpecFile: the write_vshbin_file calls of concurrent runs and a reader on
\* one target path.  A directory maps names to files, and a file lives
\* while a name or an open stream refers to it.  A file operation fails
\* only as the names of the directory make it fail.
\* ========================================================================
\* The concurrent runs that write the target.
NumWriters == 2
\* Most read_vshbin_file calls of the reader.
MaxReads == 2

Writers == 1..NumWriters
Target == <<99, 47, 55, 46, 118, 115, 104, 98, 105, 110>> (* "c/7.vshbin" *)

\* getpid() of the run w: the runs are processes that live together.
Pid(w) == 40 + w

\* The binary the run w writes; the run 0 wrote the target before.
BinaryOf(w) ==
    [DefaultShaderBinary EXCEPT !.spirv = [i \in 1..(w + 1) |-> 7 + w], !.contentHash = w]

TmpPathNoPid(path, pid) == path \o <<46, 116, 109, 112, 46>> (* ".tmp." *)
TmpPath(path, pid) == path \o <<46, 116, 109, 112, 46>> (* ".tmp." *) \o to_string(pid)

\* std::filesystem::rename(from, to, ec) succeeds when `from` exists and,
\* on a platform whose rename does not replace, `to` does not.
RenameOk(from, to) ==
    from \in DOMAIN fsPaths /\ (renameReplaces \/ to \notin DOMAIN fsPaths)
Renamed(from, to) ==
    [n \in (DOMAIN fsPaths \ {from}) \cup {to} |->
        IF n = to THEN fsPaths[from] ELSE fsPaths[n]]
\* std::filesystem::remove(name, ec): no error when the name does not exist.
Removed(name) == [n \in DOMAIN fsPaths \ {name} |-> fsPaths[n]]

InitFile ==
    /\ renameReplaces \in BOOLEAN
    /\ \E old \in BOOLEAN :
          IF old
          THEN /\ fsPaths = [n \in {Target} |-> 1]
               /\ fsInodes = <<write_vshbin(BinaryOf(0)).v>>
          ELSE /\ fsPaths = [n \in {} |-> 0]
               /\ fsInodes = <<>>
    /\ writer = [w \in Writers |->
                    [pc |-> "start", bytes |-> <<>>, fd |-> 0, off |-> 0, res |-> "none",
                     before |-> <<>>]]
    /\ reader = [pc |-> "open", fd |-> 0, size |-> 0, bytes |-> <<>>,
                 res |-> Err("none"), reads |-> 0]
    /\ Idle("file")

\* write_vshbin(bin), then std::ofstream f(tmpPath): a new file under the
\* name, or the file of that name emptied.
WBegin(w) ==
    LET tmp    == TmpPath(Target, Pid(w))
        img    == write_vshbin(BinaryOf(w))
        exists == tmp \in DOMAIN fsPaths
        ino    == IF exists THEN fsPaths[tmp] ELSE Len(fsInodes) + 1
        \* what the target holds when the call begins, <<-1>> for no file
        before == IF Target \in DOMAIN fsPaths THEN fsInodes[fsPaths[Target]] ELSE <<-1>>
    IN  /\ writer[w].pc = "start"
        /\ IF ~img.ok
           THEN /\ writer' = [writer EXCEPT ![w].pc = "done", ![w].res = img.code,
                                            ![w].before = before]
                /\ UNCHANGED <<fsPaths, fsInodes>>
           ELSE /\ fsPaths' = [n \in DOMAIN fsPaths \cup {tmp} |->
                                  IF n = tmp THEN ino ELSE fsPaths[n]]
                /\ fsInodes' = IF exists THEN [fsInodes EXCEPT ![ino] = <<>>]
                               ELSE Append(fsInodes, <<>>)
                /\ writer' = [writer EXCEPT ![w].pc = "write", ![w].bytes = img.v,
                                            ![w].fd = ino, ![w].off = 0,
                                            ![w].before = before]
        /\ UNCHANGED <<renameReplaces, reader>>
        /\ UNCHANGED <<binVars, libVars, varVars, bldVars, cookVars, rdVars, matVars, exprVars, metaVars, lrVars>>

\* f.write(bytes): the stream hands the bytes to the file in two parts, each
\* at the offset of the stream, over what the file holds there.
WWrite(w) ==
    LET s   == writer[w]
        all == Len(s.bytes)
        to  == IF s.off + ((all + 1) \div 2) < all THEN s.off + ((all + 1) \div 2) ELSE all
        old == fsInodes[s.fd]
        new == [i \in 1..(IF Len(old) > to THEN Len(old) ELSE to) |->
                   IF i > s.off /\ i <= to THEN s.bytes[i]
                   ELSE IF i <= Len(old) THEN old[i] ELSE 0]
    IN  /\ s.pc = "write"
        /\ fsInodes' = [fsInodes EXCEPT ![s.fd] = new]
        /\ writer' = [writer EXCEPT ![w].off = to,
                                    ![w].pc = IF to = all THEN "rename" ELSE "write"]
        /\ UNCHANGED <<fsPaths, renameReplaces, reader>>
        /\ UNCHANGED <<binVars, libVars, varVars, bldVars, cookVars, rdVars, matVars, exprVars, metaVars, lrVars>>

\* std::filesystem::rename(tmpPath, path, ec)
WRename(w) ==
    LET tmp == TmpPath(Target, Pid(w))
    IN  /\ writer[w].pc = "rename"
        /\ IF RenameOk(tmp, Target)
           THEN /\ fsPaths' = Renamed(tmp, Target)
                /\ writer' = [writer EXCEPT ![w].pc = "done", ![w].res = "eOk"]
           ELSE /\ UNCHANGED fsPaths
                /\ writer' = [writer EXCEPT ![w].pc = "remove"]
        /\ UNCHANGED <<fsInodes, renameReplaces, reader>>
        /\ UNCHANGED <<binVars, libVars, varVars, bldVars, cookVars, rdVars, matVars, exprVars, metaVars, lrVars>>

\* if (ec): std::filesystem::remove(path, ec)
WRemove(w) ==
    /\ writer[w].pc = "remove"
    /\ fsPaths' = Removed(Target)
    /\ writer' = [writer EXCEPT ![w].pc = "retry"]
    /\ UNCHANGED <<fsInodes, renameReplaces, reader>>
    /\ UNCHANGED <<binVars, libVars, varVars, bldVars, cookVars, rdVars, matVars, exprVars, metaVars, lrVars>>

\* the second std::filesystem::rename(tmpPath, path, ec)
WRetry(w) ==
    LET tmp == TmpPath(Target, Pid(w))
    IN  /\ writer[w].pc = "retry"
        /\ IF RenameOk(tmp, Target)
           THEN /\ fsPaths' = Renamed(tmp, Target)
                /\ writer' = [writer EXCEPT ![w].pc = "done", ![w].res = "eOk"]
           ELSE /\ UNCHANGED fsPaths
                /\ writer' = [writer EXCEPT ![w].pc = "cleanup"]
        /\ UNCHANGED <<fsInodes, renameReplaces, reader>>
        /\ UNCHANGED <<binVars, libVars, varVars, bldVars, cookVars, rdVars, matVars, exprVars, metaVars, lrVars>>

\* if (ec): std::filesystem::remove(tmpPath, ec); return eIO
WCleanup(w) ==
    /\ writer[w].pc = "cleanup"
    /\ fsPaths' = Removed(TmpPath(Target, Pid(w)))
    /\ writer' = [writer EXCEPT ![w].pc = "done", ![w].res = "eIO"]
    /\ UNCHANGED <<fsInodes, renameReplaces, reader>>
    /\ UNCHANGED <<binVars, libVars, varVars, bldVars, cookVars, rdVars, matVars, exprVars, metaVars, lrVars>>

\* read_vshbin_file: std::ifstream f(path); eIO when the name does not exist
ROpen ==
    /\ reader.pc = "open"
    /\ reader.reads < MaxReads
    /\ reader' = IF Target \in DOMAIN fsPaths
                 THEN [reader EXCEPT !.pc = "seek", !.fd = fsPaths[Target],
                                     !.bytes = <<>>, !.res = Err("none")]
                 ELSE [reader EXCEPT !.fd = 0, !.bytes = <<>>, !.res = Err("eIO"),
                                     !.reads = @ + 1]
    /\ UNCHANGED <<fsPaths, fsInodes, renameReplaces, writer>>
    /\ UNCHANGED <<binVars, libVars, varVars, bldVars, cookVars, rdVars, matVars, exprVars, metaVars, lrVars>>

\* f.seekg(0, end); size = f.tellg()
RSeek ==
    /\ reader.pc = "seek"
    /\ reader' = [reader EXCEPT !.pc = "read", !.size = Len(fsInodes[reader.fd])]
    /\ UNCHANGED <<fsPaths, fsInodes, renameReplaces, writer>>
    /\ UNCHANGED <<binVars, libVars, varVars, bldVars, cookVars, rdVars, matVars, exprVars, metaVars, lrVars>>

\* f.read(bytes, size): eIO when the file holds less; then read_vshbin(bytes)
RRead ==
    LET content == fsInodes[reader.fd]
        short   == Len(content) < reader.size
        bytes   == IF short THEN content ELSE SubSeq(content, 1, reader.size)
        r       == read_vshbin(bytes)
    IN  /\ reader.pc = "read"
        /\ reader' = [reader EXCEPT !.pc = "open", !.bytes = bytes, !.reads = @ + 1,
                                    !.res = IF short THEN Err("eIO")
                                            ELSE [ok |-> r.ok, code |-> r.code, v |-> <<>>]]
        /\ UNCHANGED <<fsPaths, fsInodes, renameReplaces, writer>>
        /\ UNCHANGED <<binVars, libVars, varVars, bldVars, cookVars, rdVars, matVars, exprVars, metaVars, lrVars>>

NextFile ==
    \/ \E w \in Writers :
          \/ WBegin(w) \/ WWrite(w) \/ WRename(w)
          \/ WRemove(w) \/ WRetry(w) \/ WCleanup(w)
    \/ ROpen \/ RSeek \/ RRead

\* ========================================================================
\* SpecFileFail: the same calls on a platform whose rename may also fail
\* for a reason other than the names of the directory
\* ========================================================================
\* std::filesystem::rename(tmpPath, path, ec) sets ec and renames nothing:
\* the first call goes on to remove(path), the second to remove(tmpPath).
WRenameError(w) ==
    /\ writer[w].pc \in {"rename", "retry"}
    /\ writer' = [writer EXCEPT ![w].pc = IF writer[w].pc = "rename" THEN "remove"
                                          ELSE "cleanup"]
    /\ UNCHANGED <<fsPaths, fsInodes, renameReplaces, reader>>
    /\ UNCHANGED <<binVars, libVars, varVars, bldVars, cookVars, rdVars, matVars, exprVars, metaVars, lrVars>>

NextFileFail == NextFile \/ \E w \in Writers : WRenameError(w)

\* ========================================================================
\* SpecCook: one run of `vshaderc cook`: the manifest load and the source
\* pre-load, one loop iteration per variant, then the sort and write_vslib.  The run has loaded an engine keywords file and runs with
\* --no-cache.
\* ========================================================================
\* Most variants in the manifest.
MaxTasks == 2

\* read_text_file: the file s/X.vshader holds the shader source named X.
read_text_file(path) == ShaderText(<<path[3]>>)

\* load_cook_manifest on the [shader] blocks of the manifest file, each
\* with its input, its stage and the define list of each of its variant
\* lines: the flush of every block.
load_cook_manifest(blocks) ==
    IF \E i \in 1..Len(blocks) : blocks[i].input = <<>> THEN Err("eParseError")
    ELSE IF blocks = <<>> THEN Err("eParseError")
    ELSE Ok([i \in 1..Len(blocks) |->
                IF blocks[i].variants = <<>> THEN [blocks[i] EXCEPT !.variants = << <<>> >>]
                ELSE blocks[i]])

\* The tasks of cmd_cook: each variant of each job, in order.
FlattenTasks(jobs) ==
    Flatten([i \in 1..Len(jobs) |->
                [k \in 1..Len(jobs[i].variants) |->
                    [input |-> jobs[i].input, stage |-> jobs[i].stage,
                     defines |-> jobs[i].variants[k]]]])

\* The manifests: up to MaxTasks blocks with MaxTasks variants at most in
\* all, a block without a variant line counting as one.
InitCook ==
    LET Block(text, stage, variants) ==
            [input |-> <<115, 47>> (* "s/" *) \o text \o <<46, 118, 115, 104, 97, 100, 101, 114>> (* ".vshader" *), stage |-> stage, variants |-> variants]
        A(v) == <<[name |-> <<65>>, value |-> v]>>
        BlockInputs ==
            {Block(<<97>>, 1, <<A(<<49>>)>>), Block(<<97>>, 0, <<A(<<49>>)>>),
             Block(<<97>>, 1, <<A(<<48>>)>>), Block(<<97>>, 1, << <<>> >>),
             Block(<<97>>, 1, <<A(<<50>>)>>),
             Block(<<99>>, 1, <<A(<<48>>)>>), Block(<<99>>, 1, <<A(<<49>>)>>),
             Block(<<120>>, 1, << <<>> >>), Block(<<33>>, 1, << <<>> >>),
             Block(<<103>>, 1, << <<>> >>), Block(<<63>>, 1, << <<>> >>),
             \* no variant line; both values of A; a variant twice; no input
             Block(<<97>>, 1, <<>>), Block(<<110>>, 1, <<>>),
             Block(<<97>>, 1, <<A(<<48>>), A(<<49>>)>>),
             Block(<<97>>, 1, <<A(<<49>>), A(<<49>>)>>),
             [input |-> <<>>, stage |-> 1, variants |-> <<>>]}
        RECURSIVE Variants(_)
        Variants(blocks) ==
            IF blocks = <<>> THEN 0
            ELSE (IF Head(blocks).variants = <<>> THEN 1 ELSE Len(Head(blocks).variants))
                 + Variants(Tail(blocks))
    IN  /\ manifest \in {m \in UNION {[1..n -> BlockInputs] : n \in 1..MaxTasks} :
                             Variants(m) <= MaxTasks}
        /\ tasks = <<>>
        /\ skipInvalid \in BOOLEAN
        /\ cookKw \in {{}, {[name |-> <<68>>, value |-> <<49>>]}}
        /\ taskIndex = 0
        /\ cookEntries = <<>>
        /\ seen = {}
        /\ pruned = 0
        /\ firstError = ""
        /\ cookLog = <<>>
        /\ outLib = [present |-> FALSE, data |-> <<>>]
        /\ exitCode = -1
        /\ cookpc = "load"
        /\ Idle("cook")

\* The manifest load (return 3 when it fails), the pre-load of sources and
\* metadata (return 4 when a source does not parse), then the flattening
\* of the jobs into tasks.
CookLoad ==
    LET Loaded(jobs) ==
            IF \E i \in 1..Len(jobs) : ~parse_vultra_metadata(read_text_file(jobs[i].input)).ok
            THEN exitCode' = 4 /\ cookpc' = "done" /\ UNCHANGED tasks
            ELSE cookpc' = "loop" /\ tasks' = FlattenTasks(jobs) /\ UNCHANGED exitCode
        Manifest(mr) ==
            IF ~mr.ok THEN exitCode' = 3 /\ cookpc' = "done" /\ UNCHANGED tasks
            ELSE Loaded(mr.v)
    IN  /\ cookpc = "load"
        /\ Manifest(load_cook_manifest(manifest))
        /\ UNCHANGED <<manifest, skipInvalid, cookKw, taskIndex, cookEntries, seen, pruned,
                       firstError, cookLog, outLib>>
        /\ UNCHANGED <<binVars, libVars, varVars, bldVars, fileVars, rdVars, matVars, exprVars, metaVars, lrVars>>

\* One iteration of the loop over the tasks.
CookVariant ==
    LET Last(S) == CHOOSE i \in S : \A j \in S : j <= i
        \* what the iteration came to: firstError and break, continue, or an
        \* entry appended
        Record(outcome, reached, built, ents, sn, pr) ==
            /\ cookLog' = Append(cookLog, [outcome |-> outcome, reached |-> reached,
                                           built |-> built])
            /\ cookEntries' = ents
            /\ seen' = sn
            /\ pruned' = pr
            /\ firstError' = IF outcome \in {"built", "pruned"} THEN "" ELSE outcome
            /\ taskIndex' = taskIndex + 1
        Entry(br, e, sig, blob) ==
            IF ~br.ok THEN Record("build failed", TRUE, FALSE, cookEntries, seen, pruned)
            ELSE IF ~blob.ok
            THEN Record("failed to serialize", TRUE, TRUE, cookEntries, seen, pruned)
            ELSE IF sig \in seen
            THEN Record("duplicate entry", TRUE, TRUE, cookEntries, seen, pruned)
            ELSE Record("built", TRUE, TRUE, Append(cookEntries, [e EXCEPT !.blob = blob.v]),
                        seen \cup {sig}, pruned)
        KeyOf(br, binary) ==
            Entry(br, [keyHash |-> IF binary.variantHash # 0 THEN binary.variantHash
                                   ELSE binary.contentHash,
                       stage |-> binary.stage, blob |-> <<>>],
                  xxhash64(write_u64(IF binary.variantHash # 0 THEN binary.variantHash
                                     ELSE binary.contentHash), binary.stage % 256),
                  write_vshbin(binary))
        Built(br) == KeyOf(br, br.v.binary)
        Request(task, defines) ==
            [source |-> [virtualPath |-> task.input,
                         sourceText |-> read_text_file(task.input)],
             options |-> [stage |-> task.stage, optimize |-> FALSE, debugInfo |-> FALSE,
                          stripDebugInfo |-> FALSE, defines |-> defines,
                          includeDirs |-> <<>>],
             hasEngineKeywords |-> TRUE, engineKeywords |-> [values |-> cookKw],
             enableCache |-> FALSE]
        \* the constraints in keyword order up to the first that is not true;
        \* br is what build_shader returns for the variant
        Constraints(md, ers, br) ==
            LET stop == {i \in 1..Len(ers) :
                            md.keywords[i].constraint # <<>> /\ ~(ers[i].ok /\ ers[i].v)}
                er   == ers[CHOOSE i \in stop : \A j \in stop : i <= j]
            IN  IF stop = {} THEN Built(br)
                ELSE IF ~er.ok
                THEN Record("failed to eval only_if", FALSE, FALSE, cookEntries, seen, pruned)
                ELSE IF ~skipInvalid
                THEN Record("violates only_if", FALSE, FALSE, cookEntries, seen, pruned + 1)
                ELSE Record("pruned", FALSE, FALSE, cookEntries, seen, pruned + 1)
        \* ctx.values and ctx.decls hold the last declaration of a name
        Resolved(md, vals, decls, br) ==
            IF \E i \in 1..Len(vals) : ~vals[i].ok
            THEN Record("invalid keyword value", FALSE, FALSE, cookEntries, seen, pruned)
            ELSE Constraints(md,
                    [i \in 1..Len(vals) |->
                        eval_only_if(md.keywords[i].constraint,
                            [values |->
                                [n \in {md.keywords[j].name : j \in 1..Len(vals)} |->
                                    vals[Last({j \in 1..Len(vals) :
                                                  md.keywords[j].name = n})].v],
                             decls |-> decls])],
                    br)
        ValueOf(kd, defines) == ContextValue(kd, defines, [has |-> TRUE, values |-> cookKw])
        Injected(md, defines, decls, br) ==
            Resolved(md, [i \in 1..Len(md.keywords) |-> ValueOf(md.keywords[i], defines)],
                     decls, br)
    IN  /\ cookpc = "loop"
        /\ firstError = ""
        /\ taskIndex < Len(tasks)
        \* the task, the metadata of its source, its defines with the engine
        \* values injected, and what build_shader returns for them
        /\ \E task \in {tasks[taskIndex + 1]} :
           \E md \in {parse_vultra_metadata(read_text_file(task.input)).v} :
           \E defines \in {InjectGlobals(md.keywords, task.defines, cookKw)} :
           \E br \in {build_shader(Request(task, defines), <<>>).res} :
           \* the unordered_map of the declarations iterates in any order
           \E decls \in Perms({md.keywords[Last({j \in 1..Len(md.keywords) :
                                                    md.keywords[j].name = n})] :
                                  n \in {md.keywords[j].name : j \in 1..Len(md.keywords)}}) :
               Injected(md, defines, decls, br)
        /\ UNCHANGED <<manifest, tasks, skipInvalid, cookKw, outLib, exitCode, cookpc>>
        /\ UNCHANGED <<binVars, libVars, varVars, bldVars, fileVars, rdVars, matVars, exprVars, metaVars, lrVars>>

\* After the loop: return 5 on an error, else the sort and write_vslib, which
\* rejects an entry of keyHash 0 (return 7) or writes the library (return 0).
CookFinish ==
    LET keywordsBytes == IF cookKw = {} THEN <<>> ELSE <<115, 101, 116, 32, 68, 61, 49, 10>> (* "set D=1\n" *)
    IN  /\ cookpc = "loop"
        /\ firstError # "" \/ taskIndex = Len(tasks)
        /\ IF firstError # ""
           THEN exitCode' = 5 /\ UNCHANGED outLib
           ELSE \E s \in SortOutcomes(EntryLess, cookEntries) :
                   IF ~EntriesValid(s)
                   THEN exitCode' = 7 /\ UNCHANGED outLib
                   ELSE /\ exitCode' = 0
                        /\ outLib' =
                              [present |-> TRUE,
                               data |-> Flatten(VslibParts(s,
                                           [present |-> keywordsBytes # <<>>,
                                            data |-> keywordsBytes]))]
        /\ cookpc' = "done"
        /\ UNCHANGED <<manifest, tasks, skipInvalid, cookKw, taskIndex, cookEntries, seen,
                       pruned, firstError, cookLog>>
        /\ UNCHANGED <<binVars, libVars, varVars, bldVars, fileVars, rdVars, matVars, exprVars, metaVars, lrVars>>

NextCook == CookLoad \/ CookVariant \/ CookFinish

\* ========================================================================
\* SpecRead: read_vshbin on the image of a binary that has one defect.
\* ========================================================================
\* Longest SPIR-V, in words, of the binaries whose images are damaged.
MaxWords == 2

\* The chunks of the image write_vshbin makes of b, in file order, each
\* with the offset of its tag and the size of its payload.
ChunkLayout(b) ==
    LET Sized ==
            (IF b.shaderIdHash # 0 THEN <<[tag |-> <<83, 73, 68, 72>> (* "SIDH" *), size |-> 8]>> ELSE <<>>)
            \o (IF b.variantHash # 0 THEN <<[tag |-> <<86, 75, 69, 89>> (* "VKEY" *), size |-> 8]>> ELSE <<>>)
            \o <<[tag |-> <<83, 80, 82, 86>> (* "SPRV" *), size |-> 4 * Len(b.spirv)],
                 [tag |-> <<82, 69, 70, 76>> (* "REFL" *), size |-> Len(serialize_reflection(b.reflection))],
                 [tag |-> <<77, 68, 69, 83>> (* "MDES" *), size |-> Len(serialize_mdesc(b.materialDesc))]>>
        Before(i) == Len(Flatten([j \in 1..(i - 1) |-> Zeros(8 + Sized[j].size)]))
    IN  [i \in 1..Len(Sized) |->
            [tag |-> Sized[i].tag, off |-> 32 + Before(i), size |-> Sized[i].size]]

InitRead ==
    /\ rdBin \in {[DefaultShaderBinary EXCEPT !.spirv = sp, !.shaderIdHash = si,
                                              !.variantHash = vh,
                                              !.spirvHash = IF h THEN xxhash64_words(sp)
                                                            ELSE 0] :
                     sp \in UNION {[1..n -> {7}] : n \in 1..MaxWords},
                     si \in {0, 9}, vh \in {0, 11}, h \in BOOLEAN}
    /\ rdImage = write_vshbin(rdBin).v
    /\ rdDefect = [kind |-> "none", at |-> 0]
    /\ rdRes = Err("none")
    /\ rdpc = "valid"
    /\ Idle("rd")

\* The image gets one defect.  `at` says where: the byte of the magic, the
\* version, the length the file is cut to, the tag of the chunk.
Damage ==
    LET chunks == ChunkLayout(rdBin)
        Replaced(off, n, new) ==
            SubSeq(rdImage, 1, off) \o new \o SubSeq(rdImage, off + n + 1, Len(rdImage))
        Defect(kind, at, img) ==
            /\ rdImage' = img
            /\ rdDefect' = [kind |-> kind, at |-> at]
        \* the chunk c with a payload of n bytes and the size field n
        Resized(c, n) ==
            Replaced(c.off + 4, 4 + c.size, write_u32(n) \o [i \in 1..n |-> IF i = 1 THEN 1 ELSE 0])
        Boundaries == {32} \cup {chunks[i].off + 8 + chunks[i].size : i \in 1..Len(chunks)}
        Headers == UNION {(chunks[i].off + 1)..(chunks[i].off + 7) : i \in 1..Len(chunks)}
    IN  /\ rdpc = "valid"
        /\ \/ \E i \in 1..8 :
                 Defect("magic", i, Replaced(i - 1, 1, <<(rdImage[i] + 1) % 256>>))
           \/ \E v \in {0, 1, 3, 258, 65536} :
                 Defect("version", v, Replaced(8, 4, write_u32(v)))
           \* the file ends inside a chunk header, inside a payload, or
           \* between two chunks
           \/ \E n \in 32..(Len(rdImage) - 1) :
                 Defect(IF n \in Boundaries THEN "missing chunk"
                        ELSE IF n \in Headers THEN "chunk header past the end"
                        ELSE "payload past the end",
                        n, SubSeq(rdImage, 1, n))
           \* the size field of a chunk says more than the file holds
           \/ \E i \in 1..Len(chunks), more \in {1, 1000, 2000000000} :
                 Defect("payload past the end", chunks[i].tag,
                        Replaced(chunks[i].off + 4, 4,
                                 write_u32(Len(rdImage) - chunks[i].off - 8 + more)))
           \/ \E i \in 1..Len(chunks), n \in {0, 4, 7, 9, 12} :
                 /\ chunks[i].tag \in {<<83, 73, 68, 72>> (* "SIDH" *), <<86, 75, 69, 89>> (* "VKEY" *)}
                 /\ Defect("size not 8", chunks[i].tag, Resized(chunks[i], n))
           \/ \E i \in 1..Len(chunks), n \in {1, 2, 3, 5, 6, 7} :
                 /\ chunks[i].tag = <<83, 80, 82, 86>> (* "SPRV" *)
                 /\ Defect("size not a multiple of 4", chunks[i].tag, Resized(chunks[i], n))
           \* an SPRV chunk with no words
           \/ \E i \in 1..Len(chunks) :
                 /\ chunks[i].tag = <<83, 80, 82, 86>> (* "SPRV" *)
                 /\ Defect("empty SPRV", chunks[i].tag, Resized(chunks[i], 0))
           \/ \E i \in 1..Len(chunks) :
                 /\ chunks[i].tag \in {<<83, 80, 82, 86>> (* "SPRV" *), <<82, 69, 70, 76>> (* "REFL" *), <<77, 68, 69, 83>> (* "MDES" *)}
                 /\ Defect("missing chunk", chunks[i].tag,
                           Replaced(chunks[i].off, 8 + chunks[i].size, <<>>))
        /\ rdpc' = "damaged"
        /\ UNCHANGED <<rdBin, rdRes>>
        /\ UNCHANGED <<binVars, libVars, varVars, bldVars, fileVars, cookVars, matVars, exprVars, metaVars, lrVars>>

ReadImage ==
    /\ rdpc \in {"valid", "damaged"}
    /\ rdRes' = read_vshbin(rdImage)
    /\ rdpc' = "read"
    /\ UNCHANGED <<rdBin, rdImage, rdDefect>>
    /\ UNCHANGED <<binVars, libVars, varVars, bldVars, fileVars, cookVars, matVars, exprVars, metaVars, lrVars>>

NextRead == Damage \/ ReadImage

\* ========================================================================
\* SpecMat: validate_and_build_mdesc on a reflection and a parsed metadata,
\* as build_shader calls it: on a default MaterialDescription whose
\* materialBlockName is "Material".
\* ========================================================================
\* Most blocks, and most descriptors, of a reflection.
MaxReflItems == 2

InitMat ==
    LET Material == DefaultMaterialDescription.materialBlockName
        Member(n, off) == [name |-> n, offset |-> off, size |-> 4, type |-> 0]
        Block(n, push, size, members) ==
            [name |-> n, set |-> 0, binding |-> 0, size |-> size,
             isPushConstant |-> push, stageFlags |-> 2, members |-> members]
        Descriptor(n, kind, binding) ==
            [name |-> n, set |-> 1, binding |-> binding, count |-> binding + 1,
             kind |-> kind, stageFlags |-> 2, runtimeSized |-> FALSE]
        \* the Material block, a push-constant block and a storage block of
        \* the same name, and a block of another name
        BlockInputs ==
            {Block(Material, FALSE, 8, <<Member(<<98>>, 0), Member(<<99>>, 4)>>),
             Block(Material, FALSE, 4, <<Member(<<99>>, 0)>>),
             Block(Material, TRUE, 8, <<Member(<<98>>, 0), Member(<<99>>, 4)>>),
             Block(<<71, 108, 111, 98, 97, 108, 115>> (* "Globals" *), FALSE, 4, <<Member(<<98>>, 0)>>)}
        \* a combined image sampler, a sampled image, a uniform buffer, a sampler
        DescriptorInputs ==
            {Descriptor(<<97>>, 5, 0), Descriptor(<<116>>, 2, 1), Descriptor(<<117>>, 0, 2),
             Descriptor(<<115>>, 4, 3)}
        Param(n, sem) ==
            [name |-> n, semantic |-> sem, hasDefault |-> FALSE,
             defaultValue |-> [type |-> 0, valueBuffer |-> Zeros(64)],
             hasRange |-> FALSE,
             range |-> [min |-> Zeros(8), max |-> <<0, 0, 0, 0, 0, 0, 240, 63>>]]
        Texture(n, sem) == [name |-> n, semantic |-> sem]
        Lists(S) == UNION {[1..n -> S] : n \in 0..MaxReflItems}
    IN  /\ matRefl \in {[DefaultReflection EXCEPT !.blocks = bs, !.descriptors = ds] :
                           bs \in Lists(BlockInputs), ds \in Lists(DescriptorInputs)}
        /\ matMeta \in {[DefaultMetadata EXCEPT !.params = ps, !.textures = ts,
                                                !.renderState = rs] :
                           ps \in {{}, {Param(<<98>>, 1)}, {Param(<<122>>, 2)}},
                           ts \in {{}, {Texture(<<97>>, 3)}, {Texture(<<113>>, 4)}},
                           rs \in {DefaultMetadata.renderState,
                                   [DefaultMetadata.renderState EXCEPT
                                       !.blendEnable = TRUE, !.cull = 0]}}
        /\ matRes = Err("none")
        /\ matpc = "init"
        /\ Idle("mat")

Synthesize ==
    /\ matpc = "init"
    /\ matRes' = validate_and_build_mdesc(DefaultMaterialDescription, matRefl, matMeta)
    /\ matpc' = "done"
    /\ UNCHANGED <<matRefl, matMeta>>
    /\ UNCHANGED <<binVars, libVars, varVars, bldVars, fileVars, cookVars, rdVars, exprVars, metaVars, lrVars>>

\* build_from_spirv on a SPIR-V whose reflection is matRefl.
BuildFromSpirv ==
    /\ matpc = "init"
    /\ matRes' = build_from_spirv(<<7>>, 1, Ok(matRefl))
    /\ matpc' = "built"
    /\ UNCHANGED <<matRefl, matMeta>>
    /\ UNCHANGED <<binVars, libVars, varVars, bldVars, fileVars, cookVars, rdVars, exprVars, metaVars, lrVars>>

NextMat == Synthesize \/ BuildFromSpirv

\* ========================================================================
\* SpecExpr: eval_only_if on the text of an expression of the grammar
\*     or := and ('||' and)*    and := cmp ('&&' cmp)*
\*     cmp := primary (('==' | '!=') primary)?
\*     primary := IDENT | NUMBER | 'true' | 'false' | '(' or ')'
\* An expression is [cmps, ops]: its cmp operands from left to right and
\* the operator, "and" or "or", between each two.  A cmp is [lhs, op, rhs]
\* and a primary [k, text, v, inner]: k says what the primary is, v is the
\* number of a literal or the index of an enumerant, inner the expression
\* in the parentheses.  The numbers are those of a keyword value, a uint32.
\* ========================================================================
\* Most cmp operands of an expression.
MaxOperands == 3

\* The text of an expression; sp is what is written around an operator.
RECURSIVE ExprText(_, _)
ExprText(e, sp) ==
    LET PrimText(p) == IF p.k = "paren" THEN <<40>> \o ExprText(p.inner, sp) \o <<41>>
                       ELSE p.text
        CmpText(c) ==
            PrimText(c.lhs)
            \o (IF c.op = "none" THEN <<>>
                ELSE sp \o (IF c.op = "eq" THEN <<61, 61>> (* "==" *) ELSE <<33, 61>> (* "!=" *)) \o sp \o PrimText(c.rhs))
    IN  Flatten([i \in 1..Len(e.cmps) |->
                    (IF i = 1 THEN <<>>
                     ELSE sp \o (IF e.ops[i - 1] = "and" THEN <<38, 38>> (* "&&" *) ELSE <<124, 124>> (* "||" *)) \o sp)
                    \o CmpText(e.cmps[i])])

\* The declarations: the bool keyword A, the enum keywords S = X|Y|Z and
\* T = P|Q.  The expressions: the empty one and those of up to MaxOperands
\* cmps.  After an expression of one cmp the text may go on.
InitExpr ==
    LET NoExpr == [cmps |-> <<>>, ops |-> <<>>]
        Prim(k, text, v) == [k |-> k, text |-> text, v |-> v, inner |-> NoExpr]
        Paren(e) == [k |-> "paren", text |-> <<>>, v |-> 0, inner |-> e]
        Cmp(lhs, op, rhs) == [lhs |-> lhs, op |-> op, rhs |-> rhs]
        Only(p) == Cmp(p, "none", Prim("none", <<>>, 0))
        A == Prim("keyword", <<65>>, 0)
        S == Prim("keyword", <<83>>, 0)
        T == Prim("keyword", <<84>>, 0)
        AOrS == [cmps |-> <<Only(A), Cmp(S, "eq", Prim("enumerant", <<90>>, 2))>>,
                 ops |-> <<"or">>]
        CmpInputs ==
            {Only(A), Only(Prim("number", <<48>>, 0)), Only(Prim("number", <<48, 50>> (* "02" *), 2)),
             Cmp(S, "eq", Prim("enumerant", <<89>>, 1)),
             Cmp(T, "ne", Prim("false", <<70, 97, 108, 115, 101>> (* "False" *), 0)),
             Cmp(Paren(AOrS), "eq", Prim("true", <<116, 114, 117, 101>> (* "true" *), 1))}
        Decl(n, kind, enumValues) ==
            [name |-> n, dispatch |-> 0, scope |-> 0, kind |-> kind, defaultValue |-> 0,
             enumValues |-> enumValues, constraint |-> <<>>]
        decls == <<Decl(<<65>>, 0, <<>>), Decl(<<83>>, 1, <<<<88>>, <<89>>, <<90>>>>),
                   Decl(<<84>>, 1, <<<<80>>, <<81>>>>)>>
        Tails == {<<32, 49>> (* " 1" *), <<32, 65>> (* " A" *), <<41>>, <<32, 40>> (* " (" *), <<61, 32, 49>> (* "= 1" *), <<32, 38, 32, 65>> (* " & A" *), <<124, 32, 65>> (* "| A" *), <<33>>, <<32, 35>> (* " #" *)}
        Text(e, tail, wrapped) ==
            IF wrapped THEN <<32, 111, 110, 108, 121, 95, 105, 102, 40, 32>> (* " only_if( " *) \o ExprText(e, <<32>>) \o tail \o <<32, 41, 32>> (* " ) " *)
            ELSE ExprText(e, <<>>) \o tail
    IN  /\ \E n \in 0..MaxOperands :
              /\ exprTree \in {[cmps |-> cs, ops |-> os] :
                                  cs \in [1..n -> CmpInputs],
                                  os \in [1..(IF n = 0 THEN 0 ELSE n - 1) -> {"and", "or"}]}
              /\ exprTail \in IF n = 1 THEN Tails \cup {<<>>} ELSE {<<>>}
        /\ exprWrapped \in BOOLEAN
        /\ exprText = Text(exprTree, exprTail, exprWrapped)
        /\ exprCtx \in {[values |-> [k \in {<<65>>, <<83>>, <<84>>} |->
                                        IF k = <<65>> THEN a ELSE IF k = <<83>> THEN s ELSE 1],
                         decls |-> decls] : a \in {0, 1}, s \in {1, 2}}
        /\ exprRes = Err("none")
        /\ exprAgain = Err("none")
        /\ exprpc = "init"
        /\ Idle("expr")

Evaluate ==
    /\ exprpc = "init"
    /\ exprRes' = eval_only_if(exprText, exprCtx)
    /\ exprpc' = "done"
    /\ UNCHANGED <<exprTree, exprTail, exprWrapped, exprText, exprCtx, exprAgain>>
    /\ UNCHANGED <<binVars, libVars, varVars, bldVars, fileVars, cookVars, rdVars, matVars, metaVars, lrVars>>

NextExpr == Evaluate

\* ========================================================================
\* SpecExprTwice: eval_only_if twice on the same text, in two contexts of
\* the same values and declarations
\* ========================================================================
\* The declarations: the bool keyword A and the enum keywords S = X|Y|Z and
\* U = Y|X, which has the enumerants X and Y of S at other indices.
\* ctx.decls is an unordered_map: the sequence is the order in which it
\* iterates.
InitExprTwice ==
    LET NoExpr == [cmps |-> <<>>, ops |-> <<>>]
        Prim(k, text, v) == [k |-> k, text |-> text, v |-> v, inner |-> NoExpr]
        Cmp(lhs, op, rhs) == [lhs |-> lhs, op |-> op, rhs |-> rhs]
        CmpInputs ==
            {Cmp(Prim("keyword", <<65>>, 0), "none", Prim("none", <<>>, 0)),
             Cmp(Prim("keyword", <<83>>, 0), "eq", Prim("enumerant", <<89>>, 1)),
             Cmp(Prim("keyword", <<85>>, 0), "ne", Prim("enumerant", <<88>>, 1)),
             Cmp(Prim("keyword", <<83>>, 0), "eq", Prim("enumerant", <<90>>, 2))}
        Decl(n, kind, enumValues) ==
            [name |-> n, dispatch |-> 0, scope |-> 0, kind |-> kind, defaultValue |-> 0,
             enumValues |-> enumValues, constraint |-> <<>>]
    IN  /\ \E n \in 1..MaxOperands :
              exprTree \in {[cmps |-> cs, ops |-> os] :
                               cs \in [1..n -> CmpInputs],
                               os \in [1..(n - 1) -> {"and", "or"}]}
        /\ exprTail = <<>>
        /\ exprWrapped \in BOOLEAN
        /\ exprText = IF exprWrapped THEN <<111, 110, 108, 121, 95, 105, 102, 40>> (* "only_if(" *) \o ExprText(exprTree, <<32>>) \o <<41>>
                      ELSE ExprText(exprTree, <<>>)
        /\ exprCtx \in {[values |-> [k \in {<<65>>, <<83>>, <<85>>} |->
                                        IF k = <<65>> THEN a ELSE IF k = <<83>> THEN s ELSE 1],
                         decls |-> ds] :
                           a \in {0, 1}, s \in {0, 1},
                           ds \in Perms({Decl(<<65>>, 0, <<>>),
                                         Decl(<<83>>, 1, <<<<88>>, <<89>>, <<90>>>>),
                                         Decl(<<85>>, 1, <<<<89>>, <<88>>>>)})}
        /\ exprRes = Err("none")
        /\ exprAgain = Err("none")
        /\ exprpc = "init"
        /\ Idle("expr")

\* The second evaluation: the map of declarations of equal content iterates
\* in any order.
EvaluateAgain ==
    /\ exprpc = "done"
    /\ \E ds \in Perms({exprCtx.decls[i] : i \in 1..Len(exprCtx.decls)}) :
          exprAgain' = eval_only_if(exprText, [exprCtx EXCEPT !.decls = ds])
    /\ exprpc' = "again"
    /\ UNCHANGED <<exprTree, exprTail, exprWrapped, exprText, exprCtx, exprRes>>
    /\ UNCHANGED <<binVars, libVars, varVars, bldVars, fileVars, cookVars, rdVars, matVars, metaVars, lrVars>>

NextExprTwice == Evaluate \/ EvaluateAgain

\* ========================================================================
\* SpecMeta: parse_vultra_metadata on a source text of a few lines.  A line
\* is [what, text, decls]: what says what the line is ("keyword", "valid",
\* "other", or the name of its defect), text is the line as written, decls is the
\* keyword declaration the line makes, if any.
\* ========================================================================
\* Most lines of a source.
MaxLines == 2

InitMeta ==
    LET Decl(dispatch, scope, name, kind, default, enums) ==
            [name |-> name, dispatch |-> dispatch, scope |-> scope, kind |-> kind,
             defaultValue |-> default, enumValues |-> enums, constraint |-> <<>>]
        RECURSIVE Join(_)
        Join(names) == IF Len(names) = 1 THEN names[1]
                       ELSE names[1] \o <<124>> \o Join(Tail(names))
        \* the line of a declaration: scopeTok is the scope as written, or
        \* nothing; a bool is written NAME=0, NAME=1 or, bare, NAME
        KeywordLine(d, scopeTok, bare) ==
            [what |-> "keyword",
             text |-> <<35, 112, 114, 97, 103, 109, 97, 32, 118, 117, 108, 116, 114, 97, 32, 107, 101, 121, 119, 111, 114, 100, 32>> (* "#pragma vultra keyword " *)
                      \o <<<<112, 101, 114, 109, 117, 116, 101>> (* "permute" *), <<114, 117, 110, 116, 105, 109, 101>> (* "runtime" *), <<115, 112, 101, 99, 105, 97, 108>> (* "special" *)>>[d.dispatch + 1]
                      \o (IF scopeTok = <<>> THEN <<>> ELSE <<32>> \o scopeTok)
                      \o <<32>> \o d.name
                      \o (IF bare THEN <<>>
                          ELSE IF d.kind = 0 THEN <<61>> \o <<48 + d.defaultValue>>
                          ELSE <<61>> \o Join(d.enumValues)),
             decls |-> <<d>>]
        Line(what, rest) ==
            [what |-> what, text |-> <<35, 112, 114, 97, 103, 109, 97, 32, 118, 117, 108, 116, 114, 97>> (* "#pragma vultra" *) \o rest, decls |-> <<>>]
        KeywordLines ==
            {KeywordLine(Decl(0, 0, <<85, 83, 69, 95, 83, 72, 65, 68, 79, 87>> (* "USE_SHADOW" *), 0, 0, <<>>), <<>>, FALSE),
             KeywordLine(Decl(0, 1, <<80, 65, 83, 83>> (* "PASS" *), 1, 0, <<<<65>>, <<66>>>>), <<103, 108, 111, 98, 97, 108>> (* "global" *), FALSE),
             KeywordLine(Decl(1, 0, <<70, 79, 71>> (* "FOG" *), 0, 1, <<>>), <<108, 111, 99, 97, 108>> (* "local" *), FALSE),
             KeywordLine(Decl(2, 2, <<81>>, 1, 0, <<<<88>>, <<89>>, <<90>>>>), <<109, 97, 116, 101, 114, 105, 97, 108>> (* "material" *), FALSE),
             KeywordLine(Decl(0, 3, <<78>>, 0, 0, <<>>), <<112, 97, 115, 115>> (* "pass" *), TRUE)}
        ValidLines ==
            {Line("valid", <<32, 109, 97, 116, 101, 114, 105, 97, 108>> (* " material" *)),
             Line("valid", <<32, 112, 97, 114, 97, 109, 32, 98, 32, 115, 101, 109, 97, 110, 116, 105, 99, 40, 66, 97, 115, 101, 67, 111, 108, 111, 114, 41, 32, 100, 101, 102, 97, 117, 108, 116, 40, 49, 44, 48, 46, 53, 41, 32, 114, 97, 110, 103, 101, 40, 48, 44, 50, 41>> (* " param b semantic(BaseColor) default(1,0.5) range(0,2)" *)),
             Line("valid", <<32, 116, 101, 120, 116, 117, 114, 101, 32, 116, 32, 115, 101, 109, 97, 110, 116, 105, 99, 40, 78, 111, 114, 109, 97, 108, 41>> (* " texture t semantic(Normal)" *)),
             Line("valid", <<32, 115, 116, 97, 116, 101, 32, 67, 117, 108, 108, 32, 78, 111, 110, 101>> (* " state Cull None" *)),
             Line("valid", <<32, 115, 116, 97, 116, 101, 32, 66, 108, 101, 110, 100, 32, 83, 114, 99, 65, 108, 112, 104, 97, 32, 79, 110, 101, 77, 105, 110, 117, 115, 83, 114, 99, 65, 108, 112, 104, 97>> (* " state Blend SrcAlpha OneMinusSrcAlpha" *)),
             [what |-> "valid", text |-> <<118, 111, 105, 100, 32, 109, 97, 105, 110, 40, 41, 32, 123, 125>> (* "void main() {}" *), decls |-> <<>>],
             [what |-> "valid", text |-> <<35, 112, 114, 97, 103, 109, 97, 32, 111, 110, 99, 101>> (* "#pragma once" *), decls |-> <<>>],
             [what |-> "valid", text |-> <<47, 47, 32, 35, 112, 114, 97, 103, 109, 97, 32, 118, 117, 108, 116, 114, 97, 32, 109, 97, 116, 101, 114, 105, 97, 108>> (* "// #pragma vultra material" *), decls |-> <<>>]}
        DefectLines ==
            {Line("too few tokens", <<>>),
             Line("unknown directive", <<32, 98, 111, 103, 117, 115>> (* " bogus" *)),
             Line("unknown attribute", <<32, 112, 97, 114, 97, 109, 32, 98, 32, 102, 111, 111, 40, 49, 41>> (* " param b foo(1)" *)),
             Line("unknown attribute", <<32, 116, 101, 120, 116, 117, 114, 101, 32, 116, 32, 100, 101, 102, 97, 117, 108, 116, 40, 49, 41>> (* " texture t default(1)" *)),
             Line("unknown enumerant", <<32, 112, 97, 114, 97, 109, 32, 98, 32, 115, 101, 109, 97, 110, 116, 105, 99, 40, 83, 104, 105, 110, 121, 41>> (* " param b semantic(Shiny)" *)),
             Line("unknown enumerant", <<32, 116, 101, 120, 116, 117, 114, 101, 32, 116, 32, 115, 101, 109, 97, 110, 116, 105, 99, 40, 83, 104, 105, 110, 121, 41>> (* " texture t semantic(Shiny)" *)),
             Line("unknown enumerant", <<32, 115, 116, 97, 116, 101, 32, 67, 117, 108, 108, 32, 83, 105, 100, 101, 119, 97, 121, 115>> (* " state Cull Sideways" *)),
             Line("unknown enumerant", <<32, 115, 116, 97, 116, 101, 32, 66, 108, 101, 110, 100, 32, 79, 110, 101, 32, 66, 111, 103, 117, 115>> (* " state Blend One Bogus" *)),
             Line("unknown enumerant", <<32, 115, 116, 97, 116, 101, 32, 66, 108, 101, 110, 100, 79, 112, 32, 80, 108, 117, 115, 32, 65, 100, 100>> (* " state BlendOp Plus Add" *)),
             Line("unknown enumerant", <<32, 115, 116, 97, 116, 101, 32, 67, 111, 109, 112, 97, 114, 101, 79, 112, 32, 83, 111, 109, 101, 116, 105, 109, 101, 115>> (* " state CompareOp Sometimes" *)),
             Line("unknown enumerant", <<32, 115, 116, 97, 116, 101, 32, 90, 84, 101, 115, 116, 32, 77, 97, 121, 98, 101>> (* " state ZTest Maybe" *)),
             Line("unknown enumerant", <<32, 115, 116, 97, 116, 101, 32, 67, 111, 108, 111, 114, 77, 97, 115, 107, 32, 82, 88>> (* " state ColorMask RX" *)),
             Line("non-numeric range entry", <<32, 112, 97, 114, 97, 109, 32, 98, 32, 114, 97, 110, 103, 101, 40, 48, 44, 120, 41>> (* " param b range(0,x)" *)),
             Line("non-numeric range entry", <<32, 112, 97, 114, 97, 109, 32, 98, 32, 114, 97, 110, 103, 101, 40, 48, 44, 49, 120, 41>> (* " param b range(0,1x)" *)),
             Line("malformed attribute", <<32, 112, 97, 114, 97, 109, 32, 98, 32, 114, 97, 110, 103, 101, 40, 49, 41>> (* " param b range(1)" *)),
             Line("malformed attribute", <<32, 112, 97, 114, 97, 109, 32, 98, 32, 100, 101, 102, 97, 117, 108, 116, 40, 41>> (* " param b default()" *)),
             Line("malformed attribute", <<32, 112, 97, 114, 97, 109, 32, 98, 32, 100, 101, 102, 97, 117, 108, 116, 40, 49, 44, 44, 50, 41>> (* " param b default(1,,2)" *)),
             Line("malformed attribute", <<32, 112, 97, 114, 97, 109, 32, 98, 32, 115, 101, 109, 97, 110, 116, 105, 99, 40, 66, 97, 115, 101, 67, 111, 108, 111, 114>> (* " param b semantic(BaseColor" *)),
             Line("missing argument", <<32, 112, 97, 114, 97, 109>> (* " param" *)),
             Line("missing argument", <<32, 116, 101, 120, 116, 117, 114, 101>> (* " texture" *)),
             Line("missing argument", <<32, 115, 116, 97, 116, 101, 32, 67, 117, 108, 108>> (* " state Cull" *)),
             Line("missing argument", <<32, 115, 116, 97, 116, 101, 32, 66, 108, 101, 110, 100, 32, 79, 110, 101>> (* " state Blend One" *)),
             Line("missing argument", <<32, 115, 116, 97, 116, 101, 32, 68, 101, 112, 116, 104, 66, 105, 97, 115, 32, 49>> (* " state DepthBias 1" *)),
             Line("malformed argument", <<32, 115, 116, 97, 116, 101, 32, 68, 101, 112, 116, 104, 66, 105, 97, 115, 32, 49, 32, 120>> (* " state DepthBias 1 x" *)),
             Line("state without a sub-keyword", <<32, 115, 116, 97, 116, 101>> (* " state" *)),
             Line("state with an unrecognised sub-keyword", <<32, 115, 116, 97, 116, 101, 32, 70, 111, 111>> (* " state Foo" *)),
             Line("state with an unrecognised sub-keyword", <<32, 115, 116, 97, 116, 101, 32, 70, 111, 111, 32, 66, 97, 114>> (* " state Foo Bar" *))}
        \* lines whose first two tokens are not `#pragma` and `vultra` but
        \* which start with "#pragma vultra", and the reverse
        OtherLines ==
            {Line("other", <<88, 32, 109, 97, 116, 101, 114, 105, 97, 108>> (* "X material" *)),
             Line("other", <<88>>),
             Line("other", <<95, 107, 101, 121, 119, 111, 114, 100, 32, 112, 101, 114, 109, 117, 116, 101, 32, 65, 61, 48>> (* "_keyword permute A=0" *)),
             [what |-> "other", text |-> <<35, 112, 114, 97, 103, 109, 97, 32, 32, 118, 117, 108, 116, 114, 97, 32, 109, 97, 116, 101, 114, 105, 97, 108>> (* "#pragma  vultra material" *), decls |-> <<>>],
             [what |-> "other", text |-> <<35, 112, 114, 97, 103, 109, 97, 9, 118, 117, 108, 116, 114, 97, 32, 98, 111, 103, 117, 115>> (* "#pragma\tvultra bogus" *), decls |-> <<>>]}
        Pool == KeywordLines \cup ValidLines \cup DefectLines \cup OtherLines
        \* each line as written: indented or not, ended by \n or \r\n
        Text(lines, indent, eol) ==
            Flatten([i \in 1..Len(lines) |-> indent \o lines[i].text \o eol])
    IN  /\ metaLines \in UNION {[1..n -> Pool] : n \in 1..MaxLines}
        /\ metaText \in {Text(metaLines, <<>>, <<10>>), Text(metaLines, <<32, 9>>, <<13, 10>>)}
        /\ metaRes = Err("none")
        /\ metapc = "init"
        /\ Idle("meta")

\* One call.  Where the call reads past the end of the tokens of a line, it
\* does one of the things such a read can do.
ParseSource ==
    LET Outcome(r) ==
            IF r.code # "undefined" THEN {r}
            ELSE {ParseLines(metaText, DefaultMetadata, beyond) :
                     beyond \in {"crash", "known", "unknown"}}
    IN  /\ metapc = "init"
        /\ metaRes' \in Outcome(parse_vultra_metadata(metaText))
        /\ metapc' = "done"
        /\ UNCHANGED <<metaLines, metaText>>
        /\ UNCHANGED <<binVars, libVars, varVars, bldVars, fileVars, cookVars, rdVars, matVars, exprVars, lrVars>>

NextMeta == ParseSource

\* ========================================================================
\* SpecLibRead: read_vslib and extract_vslib_blob on a library file whose
\* header and TOC fields hold any values
\* ========================================================================
\* Number of fields of the file that are overwritten.
MaxPatches == 2

\* The file write_vslib makes of one entry (keyHash 5, stage 1, a blob of
\* four bytes) and a keywords chunk of 32 bytes: header at 0, blob at 56,
\* TOC at 60, keywords at 92.
InitLibRead ==
    /\ lrFile = Flatten(VslibParts(<<[keyHash |-> 5, stage |-> 1, blob |-> <<9, 8, 7, 6>>]>>,
                                   [present |-> TRUE,
                                    data |-> write_u64(7) \o write_u8(1) \o Zeros(7)
                                             \o write_u64(56) \o write_u64(2)]))
    /\ lrPatches = 0
    /\ lrRes = Err("none")
    /\ lrExt = Err("none")
    /\ lrpc = "file"
    /\ Idle("lr")

\* One field of the header or of the TOC record gets another value: the
\* u32 entryCount, or one of the u64 fields, a negative v standing for
\* 2^64 + v.
Patch ==
    LET Replaced(off, new) ==
            SubSeq(lrFile, 1, off) \o new \o SubSeq(lrFile, off + Len(new) + 1, Len(lrFile))
        u64(v) == IF v < 0 THEN LE(v + 16777216, 3) \o <<255, 255, 255, 255, 255>>
                  ELSE write_u64(v)
    IN  /\ lrpc = "file"
        /\ lrPatches < MaxPatches
        /\ \/ \E n \in {0, 2, 3} : lrFile' = Replaced(16, write_u32(n))
           \/ \E off \in {24, 32, 40, 48, 60 + 16, 60 + 24},
                 v \in {0, 2, 4, 32, 36, 47, 48, 56, 58, 60, 64, 70, 92, 124, 125,
                        -4, -10, -28, -56, -60} :
                 \* a TOC is read from the place of the TOC or of the
                 \* keywords chunk, whose 32 bytes are a TOC record
                 /\ off = 24 => v \in {0, 4, 47, 48, 60, 92, 124, -4, -60}
                 /\ lrFile' = Replaced(off, u64(v))
        /\ lrFile' # lrFile
        /\ lrPatches' = lrPatches + 1
        /\ UNCHANGED <<lrRes, lrExt, lrpc>>
        /\ UNCHANGED <<binVars, libVars, varVars, bldVars, fileVars, cookVars, rdVars, matVars, exprVars, metaVars>>

ReadPatched ==
    /\ lrpc = "file"
    /\ lrRes' = read_vslib(lrFile)
    /\ lrpc' = "read"
    /\ UNCHANGED <<lrFile, lrPatches, lrExt>>
    /\ UNCHANGED <<binVars, libVars, varVars, bldVars, fileVars, cookVars, rdVars, matVars, exprVars, metaVars>>

\* The lookup of an entry of the library read.  A memcpy from before the
\* blob region ends the process or copies what the memory there holds.
ExtractPatched ==
    LET Looked(e, r) ==
            IF r.ok \/ r.code # "undefined" THEN lrExt' = r
            ELSE \/ lrExt' = Err("crash")
                 \/ \E junk \in {0, 255} :
                       lrExt' = Ok([i \in 1..e.size |->
                                      IF e.offset - SizeofFileHeader + i >= 1
                                      THEN lrRes.v.blobData[e.offset - SizeofFileHeader + i]
                                      ELSE junk])
    IN  /\ lrpc = "read"
        /\ lrRes.ok
        /\ \E i \in 1..Len(lrRes.v.entries) :
              /\ \A j \in 1..(i - 1) :
                    lrRes.v.entries[j].keyHash # lrRes.v.entries[i].keyHash
                    \/ lrRes.v.entries[j].stage # lrRes.v.entries[i].stage
              /\ Looked(lrRes.v.entries[i],
                        extract_vslib_blob(lrRes.v, lrRes.v.entries[i].keyHash,
                                           lrRes.v.entries[i].stage))
        /\ lrpc' = "extracted"
        /\ UNCHANGED <<lrFile, lrPatches, lrRes>>
        /\ UNCHANGED <<binVars, libVars, varVars, bldVars, fileVars, cookVars, rdVars, matVars, exprVars, metaVars>>

NextLibRead == Patch \/ ReadPatched \/ ExtractPatched

\* ========================================================================
\* The specifications
\* ========================================================================
SpecBin == InitBin /\ [][NextBin]_vars
SpecLib == InitLib /\ [][NextLib]_vars
SpecVar == InitVar /\ [][NextVar]_vars
SpecBuild == InitBuild /\ [][NextBuild]_vars
SpecFile == InitFile /\ [][NextFile]_vars
SpecCook == InitCook /\ [][NextCook]_vars
SpecRead == InitRead /\ [][NextRead]_vars
SpecMat == InitMat /\ [][NextMat]_vars
SpecExpr == InitExpr /\ [][NextExpr]_vars
SpecMeta == InitMeta /\ [][NextMeta]_vars
SpecLibRead == InitLibRead /\ [][NextLibRead]_vars
SpecExprTwice == InitExprTwice /\ [][NextExprTwice]_vars
SpecFileFail == InitFile /\ [][NextFileFail]_vars

\* ------------------------------------------------------------------------
\* Claims about the .vshbin codec
\* ------------------------------------------------------------------------
\* C1: for every ShaderBinary b with non-empty spirv and spirvHash 0 or the
\* hash of its words, read_vshbin(write_vshbin(b)) succeeds and returns a
\* binary equal to b in every field, the whole reflection record included
\* (member types and the local-size fields).
C1_RoundTripExact ==
    (/\ binpc = "read"
     /\ bin.spirv # <<>>
     /\ (bin.spirvHash = 0 \/ bin.spirvHash = xxhash64_words(bin.spirv)))
    => (rd.ok /\ rd.v = bin)

\* C4: for a well-formed .vshbin, read_vshbin succeeds if and only if the
\* header spirvHash is 0 (no verification) or equals the hash recomputed
\* over the SPIR-V words of the file.
C4_HashVerifiedOnRead ==
    binpc \in {"read", "readTampered"} =>
        (rd.ok <=> (imgHash = 0 \/ xxhash64_words(imgWords) = imgHash))

\* A file whose non-zero header hash does not match its words was rejected.
C4_Witness ==
    /\ binpc = "readTampered"
    /\ imgHash # 0
    /\ xxhash64_words(imgWords) # imgHash
    /\ imgWords # <<>>
    /\ ~rd.ok

\* ------------------------------------------------------------------------
\* Claims about the .vshlib container
\* ------------------------------------------------------------------------
\* C2: for every entry list accepted by write_vslib, read_vslib of the
\* written file succeeds with one TOC entry per input entry, the lookup of
\* every input entry's (keyHash, stage) returns that entry's blob, and the
\* engine-keywords bytes come back unchanged.
C2_LibRoundTrip ==
    /\ libpc \in {"readback", "extracted"} =>
          /\ lib.ok
          /\ Len(lib.v.entries) = Len(inEntries)
          /\ lib.v.engineKeywordsVkw = kwIn.data
    /\ libpc = "extracted" =>
          \A i \in 1..Len(inEntries) :
              (inEntries[i].keyHash = ext.keyHash /\ inEntries[i].stage = ext.stage)
                  => (ext.res.ok /\ ext.res.v = inEntries[i].blob)

\* C3: in every file produced by a successful write_vslib the TOC records
\* are strictly increasing in (keyHash, stage).
C3_TocStrictlySorted ==
    libpc = "written" =>
        LET toc == read_vslib(disk).v.entries
        IN  \A i \in 1..(Len(toc) - 1) : EntryLess(toc[i], toc[i + 1])

\* C9: at every step of write_vslib the output path is untouched or holds a
\* complete library image.
C9_LibWriteAtomic ==
    \/ disk = disk0
    \/ (sorted # <<>> \/ libpc # "init") /\ disk = Flatten(VslibParts(sorted, kwIn))

\* C11: whenever an input entry has keyHash 0 or the unknown stage,
\* write_vslib returns eInvalidArgument and the output path holds what it
\* held before the call: absent stays absent, an earlier library stays as
\* it was.
C11_InvalidEntryRejectedUntouched ==
    (/\ libpc # "init"
     /\ \E i \in 1..Len(inEntries) :
           inEntries[i].keyHash = 0 \/ inEntries[i].stage = StageUnknown)
        => /\ ~wres.ok /\ wres.code = "eInvalidArgument"
           /\ libpc = "werr"
           /\ sorted = <<>> /\ wparts = <<>>
           /\ IF disk0 = "absent" THEN disk = "absent" ELSE disk = disk0

\* A rejected call over an earlier library: the invalid entry is the last
\* of three, after two valid ones.
C11_Witness ==
    /\ libpc = "werr" /\ wres.code = "eInvalidArgument"
    /\ Len(inEntries) = 3
    /\ inEntries[1].keyHash # 0 /\ inEntries[1].stage # StageUnknown
    /\ inEntries[3].keyHash = 0
    /\ disk0 # "absent" /\ disk = disk0

\* ------------------------------------------------------------------------
\* Claims about the variant hash
\* ------------------------------------------------------------------------
\* C5: the build-side variant hash over the permutation keywords equals
\* VariantKey::build() after setShaderIdHash(h), setStage(s) and one
\* set(name, value) per resolved pair, in whatever order the keywords are
\* declared and the set() calls are made.
C5_BuildSideEqualsRuntime ==
    vpc = "built" => (buildSide.ok /\ rt = buildSide.v)

\* Two keywords were set in the order opposite to their declaration order
\* and opposite to the sorted order of their name hashes.
C5_Witness ==
    /\ vpc = "built"
    /\ Len(vkey.m_Entries) >= 2
    /\ vkey.m_Entries[1].nameHash > vkey.m_Entries[2].nameHash
    /\ Len(PermutationKeywords(kwList)) >= 2
    /\ xxhash64(PermutationKeywords(kwList)[1].name, 0) = vkey.m_Entries[2].nameHash
    /\ rt = buildSide.v

\* C22: a permutation keyword resolves to the value of the last define of
\* its name if there is one, else to the engine `set` value if its scope is
\* global and the name is set, else to its declared default.  The variant
\* hash is the hash over these values of the permutation keywords and of no
\* other keyword, and the constraint context of a cook run holds the same
\* value for each of them.  The hash is looked at in the state in which
\* compute_variant_hash returns; no later step changes it.
C22_ResolutionPrecedence ==
    LET perm == SelectSeq(kwList, LAMBDA k : k.dispatch = 0)
        Defs(k) == {i \in 1..Len(vOpt.defines) : vOpt.defines[i].name = k.name}
        Sets(k) == {e \in vEngineKw.values : e.name = k.name}
        Expected(k) ==
            IF Defs(k) # {}
            THEN parse_keyword_value(k, vOpt.defines[CHOOSE i \in Defs(k) :
                                                        \A j \in Defs(k) : j <= i].value).v
            ELSE IF k.scope = 1 /\ vEngineKw.has /\ Sets(k) # {}
            THEN parse_keyword_value(k, (CHOOSE e \in Sets(k) : TRUE).value).v
            ELSE k.defaultValue
    IN  /\ (vpc \in {"computed", "cooked"} /\ keySet = {} /\ vkey.m_Entries = <<>>)
            => /\ buildSide.ok
               /\ buildSide.v =
                     VariantKey_build([m_ShaderIdHash |-> srcHash, m_Stage |-> vOpt.stage,
                                       m_Entries |-> [i \in 1..Len(perm) |->
                                                         [nameHash |-> xxhash64(perm[i].name, 0),
                                                          value |-> Expected(perm[i])]]])
        /\ vpc = "cooked"
            => \A i \in 1..Len(perm) : ctxValues.v[perm[i].name] = Expected(perm[i])

\* A cook run whose shader declares the local keyword A with default 0, the
\* global keyword D and the runtime keyword C, with an engine file that sets
\* A and D to 1 and no define for A: A keeps its default, D takes the
\* engine value.
C22_Witness ==
    /\ vpc = "cooked"
    /\ buildSide.ok
    /\ Len(kwList) = 3
    /\ \E i \in 1..3 : kwList[i].name = <<65>> /\ kwList[i].defaultValue = 0
    /\ \E i \in 1..3 : kwList[i].name = <<67>> /\ kwList[i].dispatch = 1
    /\ \E i \in 1..3 : kwList[i].name = <<68>> /\ kwList[i].scope = 1
    /\ \A i \in 1..Len(vOpt.defines) : vOpt.defines[i].name # <<65>>
    /\ [name |-> <<65>>, value |-> <<49>>] \in vEngineKw.values
    /\ ctxValues.v[<<65>>] = 0
    /\ ctxValues.v[<<68>>] = 1

\* C23: for the enum keyword B of three enumerants and a define B=raw, the
\* value is i when raw is the name of the enumerant at index i or a decimal
\* numeral of an integer i < 3, and the resolution ends in ParseError when
\* raw is a decimal numeral of an integer of 3 or more, however large.
C23_EnumIndexInRange ==
    LET decls == {i \in 1..Len(kwList) : kwList[i].name = <<66>>}
        defs  == {i \in 1..Len(vOpt.defines) : vOpt.defines[i].name = <<66>>}
        b     == kwList[CHOOSE i \in decls : TRUE]
        raw   == vOpt.defines[CHOOSE i \in defs : \A j \in defs : j <= i].value
        names == {i \in 1..Len(b.enumValues) : b.enumValues[i] = raw}
        digits == raw # <<>> /\ \A i \in 1..Len(raw) : raw[i] >= 48 /\ raw[i] <= 57
        \* the number a numeral denotes, 10 standing for every number of
        \* two digits or more
        RECURSIVE Denoted(_)
        Denoted(t) == IF Len(t) > 1 /\ Head(t) = 48 THEN Denoted(Tail(t))
                      ELSE IF Len(t) > 1 THEN 10
                      ELSE Head(t) - 48
        Is(v) == /\ vpc \in {"computed", "cooked"}
                     => /\ buildSide.ok
                        /\ vkey.m_Entries = <<>> => [name |-> <<66>>, value |-> v] \in toSet
                 /\ vpc # "cverr"
                 /\ vpc \in {"ctx", "cooked"} => ctxValues.ok /\ ctxValues.v[<<66>>] = v
                 /\ vpc # "ctxerr"
        IsParseError ==
                 /\ vpc \notin {"computed", "cooked", "ctx"}
                 /\ vpc = "cverr" => buildSide.code = "eParseError"
    IN  (vpc # "init" /\ decls # {} /\ defs # {})
            => IF digits THEN (IF Denoted(raw) < Len(b.enumValues) THEN Is(Denoted(raw))
                               ELSE IsParseError)
               ELSE names # {} => Is((CHOOSE i \in names : TRUE) - 1)

C7_CacheHitIsFreshBuild ==
    LET Hashed(r) == <<r.source, r.options.stage, normalize_define_list(r.options.defines),
                       r.options.includeDirs>>
        h == compute_build_hash(lastReq.source, lastReq.options,
                                parse_vultra_metadata(lastReq.source.sourceText).v)
    IN  (lastRes.ok /\ lastRes.v.fromCache /\ Hashed(cacheBy[h]) = Hashed(lastReq))
            => lastRes.v.binary
                  = build_shader([lastReq EXCEPT !.enableCache = FALSE], <<>>).res.v.binary

\* C17: the variantHash of a binary that build_shader built, not taken from
\* the cache, is 0 exactly when the source declares no keyword of
\* permutation dispatch.
C17_VariantHashZeroIffNoPermutation ==
    LET perm == PermutationKeywords(parse_vultra_metadata(lastReq.source.sourceText).v.keywords)
    IN  (lastRes.ok /\ ~lastRes.v.fromCache)
            => (lastRes.v.binary.variantHash = 0 <=> perm = <<>>)

\* ------------------------------------------------------------------------
\* Claims about write_vshbin_file
\* ------------------------------------------------------------------------
\* C8: under every interleaving of the write_vshbin_file calls of concurrent
\* runs and of readers of the target path, the path is absent or holds a
\* complete image, the old one or the one of a writer; a reader that opened
\* the path read a complete image and decoded it; and when all writers have
\* finished the path holds the image of one of them.
C8_NoTornFile ==
    LET Image(w) == write_vshbin(BinaryOf(w)).v
        New      == {Image(w) : w \in Writers}
        Complete == New \cup {Image(0)}
    IN  /\ Target \in DOMAIN fsPaths => fsInodes[fsPaths[Target]] \in Complete
        /\ (reader.res.code # "none" /\ reader.fd # 0)
              => reader.bytes \in Complete /\ reader.res.ok
        /\ (\A w \in Writers : writer[w].pc = "done")
              => Target \in DOMAIN fsPaths /\ fsInodes[fsPaths[Target]] \in New

\* All writers have finished over an old image, one of them with eIO after
\* the other took the path between its remove and its second rename, and
\* the reader has read the image of a writer.
C8_Witness ==
    /\ \A w \in Writers : writer[w].pc = "done"
    /\ \E w \in Writers : writer[w].res = "eIO"
    /\ Len(fsInodes) > NumWriters
    /\ reader.res.ok
    /\ \E w \in Writers : reader.bytes = writer[w].bytes

\* C30: when a write_vshbin_file call has returned an error and the target
\* held a file when the call began, the target still holds a complete
\* file: the one it held, or the image of another call that has returned
\* ok since.
C30_FailedWriteKeepsTarget ==
    \A w \in Writers :
        (writer[w].pc = "done" /\ writer[w].res # "eOk" /\ writer[w].before # <<-1>>)
            => /\ Target \in DOMAIN fsPaths
               /\ fsInodes[fsPaths[Target]] \in
                     {writer[w].before}
                     \cup {writer[v].bytes : v \in {u \in Writers : writer[u].res = "eOk"}}

C12_MalformedRejected ==
    (rdpc = "read" /\ rdDefect.kind \notin {"none", "empty SPRV"})
        => /\ ~rdRes.ok
           /\ rdRes.code = "eDeserializeError"
           /\ rdRes.v = <<>>

\* C25: a ShaderBinary that read_vshbin returns has a non-empty spirv and a
\* spirvHash that is 0 or the hash of its spirv words, and write_vshbin
\* accepts it.
C25_ReadBinaryIsValid ==
    (rdpc = "read" /\ rdRes.ok)
        => /\ rdRes.v.spirv # <<>>
           /\ rdRes.v.spirvHash \in {0, xxhash64_words(rdRes.v.spirv)}
           /\ write_vshbin(rdRes.v).ok

\* ------------------------------------------------------------------------
\* Claims about material synthesis
\* ------------------------------------------------------------------------
\* C13: when the reflection has no block that is named materialBlockName
\* and is not a push-constant block, the synthesis fails with eParseError
\* if the metadata declares a parameter, and it succeeds, with no params
\* and materialParamSize 0, only if the metadata declares none.
C13_NoBlockWithParamsFails ==
    (/\ matpc = "done"
     /\ \A i \in 1..Len(matRefl.blocks) :
           matRefl.blocks[i].isPushConstant
           \/ matRefl.blocks[i].name # DefaultMaterialDescription.materialBlockName)
        => /\ matMeta.params # {} => (~matRes.ok /\ matRes.code = "eParseError")
           /\ matRes.ok => /\ matMeta.params = {}
                           /\ matRes.v.params = <<>>
                           /\ matRes.v.materialParamSize = 0

\* C14: when the synthesis succeeds, with a material block or without, the
\* description has one texture per combined-image-sampler or sampled-image
\* descriptor, in the order of the descriptors, with the descriptor's name,
\* set, binding and count and the semantic the metadata gives that name,
\* and its render state is the render state of the metadata.
C14_TexturesAndRenderState ==
    LET IsTexture(d) == d.kind \in {2, 5}
        ds == SelectSeq(matRefl.descriptors, IsTexture)
        SemanticOf(n) ==
            IF \E t \in matMeta.textures : t.name = n
            THEN (CHOOSE t \in matMeta.textures : t.name = n).semantic
            ELSE 0
    IN  (matpc = "done" /\ matRes.ok)
            => /\ Len(matRes.v.textures) = Len(ds)
               /\ \A i \in 1..Len(ds) :
                     /\ matRes.v.textures[i].name = ds[i].name
                     /\ matRes.v.textures[i].set = ds[i].set
                     /\ matRes.v.textures[i].binding = ds[i].binding
                     /\ matRes.v.textures[i].count = ds[i].count
                     /\ matRes.v.textures[i].semantic = SemanticOf(ds[i].name)
               /\ matRes.v.renderState = matMeta.renderState

\* C29: the binary build_from_spirv returns has the reflection of the
\* SPIR-V, and when that reflection has a block named Material that is not
\* a push-constant block, materialParamSize is the size of the first such
\* block, params has one entry per member of it, in order, with the
\* member's name, offset and size, and textures has one entry per
\* combined-image-sampler or sampled-image descriptor.
C29_DescriptionFromReflection ==
    LET mats == {i \in 1..Len(matRefl.blocks) :
                    /\ ~matRefl.blocks[i].isPushConstant
                    /\ matRefl.blocks[i].name = <<77, 97, 116, 101, 114, 105, 97, 108>> (* "Material" *)}
        b    == matRefl.blocks[CHOOSE i \in mats : \A j \in mats : i <= j]
        ds   == SelectSeq(matRefl.descriptors, LAMBDA d : d.kind \in {2, 5})
        md   == matRes.v.materialDesc
    IN  (matpc = "built" /\ matRes.ok)
            => /\ matRes.v.reflection = matRefl
               /\ mats # {}
                    => /\ md.materialParamSize = b.size
                       /\ Len(md.params) = Len(b.members)
                       /\ \A i \in 1..Len(b.members) :
                             /\ md.params[i].name = b.members[i].name
                             /\ md.params[i].offset = b.members[i].offset
                             /\ md.params[i].size = b.members[i].size
                       /\ Len(md.textures) = Len(ds)
                       /\ \A i \in 1..Len(ds) : md.textures[i].name = ds[i].name

\* ------------------------------------------------------------------------
\* Claims about eval_only_if
\* ------------------------------------------------------------------------
\* C15: on the text of an expression of the grammar eval_only_if returns
\* the value of the expression, where '||' joins the runs of cmps that
\* '&&' joins, a cmp with an operator compares the numbers of its two
\* primaries, a cmp without one is true iff the number of its primary is
\* not zero, and a parenthesised expression is the number 1 or 0; the
\* empty expression is true; wrapped in only_if( ) or not, the result is
\* the same.
C15_EvalMatchesReference ==
    LET RECURSIVE Value(_)
        Value(e) ==
            LET Number(p) == IF p.k = "keyword" THEN exprCtx.values[p.text]
                             ELSE IF p.k = "paren" THEN B2I(Value(p.inner))
                             ELSE p.v
                Holds(c) == IF c.op = "none" THEN Number(c.lhs) # 0
                            ELSE IF c.op = "eq" THEN Number(c.lhs) = Number(c.rhs)
                            ELSE Number(c.lhs) # Number(c.rhs)
                n == Len(e.cmps)
            IN  \/ n = 0
                \/ \E i \in 1..n, k \in 1..n :
                      /\ i <= k
                      /\ i = 1 \/ e.ops[i - 1] = "or"
                      /\ k = n \/ e.ops[k] = "or"
                      /\ \A j \in i..(k - 1) : e.ops[j] = "and"
                      /\ \A j \in i..k : Holds(e.cmps[j])
    IN  (exprpc = "done" /\ exprTail = <<>>)
            => (exprRes.ok /\ exprRes.v = Value(exprTree))

\* `A || S == Y && 0`, unwrapped, with A = 1 and S = 1: true as
\* A || ((S == Y) && 0), false were it read as (A || S == Y) && 0.
C15_Witness ==
    /\ exprpc = "done" /\ exprTail = <<>> /\ ~exprWrapped
    /\ Len(exprTree.cmps) = 3
    /\ exprTree.ops = <<"or", "and">>
    /\ exprTree.cmps[1].lhs.text = <<65>> /\ exprTree.cmps[1].op = "none"
    /\ exprTree.cmps[2].op = "eq" /\ exprTree.cmps[2].lhs.text = <<83>>
    /\ exprTree.cmps[3].lhs.text = <<48>>
    /\ exprCtx.values[<<65>>] = 1 /\ exprCtx.values[<<83>>] = 1
    /\ exprRes.ok /\ exprRes.v

\* C19: when the text goes on after a complete expression, with a token
\* or with a character that starts no token ('=', '&', '|', '!'),
\* eval_only_if returns eParseError, never a boolean.
C19_TrailingTextRejected ==
    (exprpc = "done" /\ exprTail # <<>>)
        => (~exprRes.ok /\ exprRes.code = "eParseError")

\* C28: two evaluations of the same text in contexts of the same keyword
\* values and the same declarations return the same result, also when the
\* text names an enumerant that two enum keywords declare at different
\* indices.
C28_EvalIsAFunction ==
    exprpc = "again" => exprAgain = exprRes

C20_StrictParse ==
    (metapc = "done" /\ \E i \in 1..Len(metaLines) :
                            metaLines[i].what \notin {"keyword", "valid", "other"})
        => ~metaRes.ok /\ metaRes.code = "eParseError"

\* C21: the lines that take part in the parse are exactly those whose first
\* two white-space separated tokens are `#pragma` and `vultra`: the result
\* is that of reading the directives of these lines, in order, and of
\* ignoring every other line, one whose second token only begins with
\* `vultra` included.
C21_ExactlyPragmaVultraLines ==
    LET Tokens(text) == SelectSeq(Split(text, {9, 10, 11, 12, 13, 32}), LAMBDA t : t # <<>>)
        Takes(toks) == Len(toks) >= 2 /\ toks[1] = <<35, 112, 114, 97, 103, 109, 97>> (* "#pragma" *) /\ toks[2] = <<118, 117, 108, 116, 114, 97>> (* "vultra" *)
        RECURSIVE Directives(_, _, _)
        Directives(lines, out, beyond) ==
            LET Then(r) == IF r.ok THEN Directives(Tail(lines), r.v, beyond) ELSE r
                Line(toks) == IF Takes(toks) THEN ParseDirective(toks, out, beyond) ELSE Ok(out)
            IN  IF lines = <<>> THEN Ok(out) ELSE Then(Line(Tokens(Head(lines).text)))
    IN  metapc = "done"
            => metaRes \in {Directives(metaLines, DefaultMetadata, beyond) :
                               beyond \in {"crash", "known", "unknown"}}

\* ------------------------------------------------------------------------
\* Claims about read_vslib on arbitrary header and TOC fields
\* ------------------------------------------------------------------------
\* C26: when read_vslib succeeds, tocOffset + tocSize is at most the file
\* size and every entry has 48 <= offset and offset + size <= tocOffset,
\* all as sums of integers (a field of 2^64 - k counts as that number, not
\* as -k), and a lookup returns an error or the bytes of the blob region
\* at [offset - 56, offset - 56 + size).
C26_EntriesInsideBlobRegion ==
    LET Field(off) == SubSeq(lrFile, off + 1, off + 8)
        \* the number a u64 field holds, for a field below 2^24
        Small(off) == SubSeq(Field(off), 4, 8) = <<0, 0, 0, 0, 0>>
        Value(off) == FromLE(SubSeq(Field(off), 1, 3))
        tocOffset == Value(24)
        InBlob(e) == /\ e.offset >= 48 /\ e.size >= 0
                     /\ e.offset + e.size <= tocOffset
    IN  /\ (lrpc \in {"read", "extracted"} /\ lrRes.ok)
            => /\ Small(24) /\ Small(32)
               /\ Value(24) + Value(32) <= Len(lrFile)
               /\ \A i \in 1..Len(lrRes.v.entries) : InBlob(lrRes.v.entries[i])
        /\ lrpc = "extracted"
            => \/ ~lrExt.ok /\ lrExt.code \in {"eIO", "eDeserializeError"}
               \/ /\ lrExt.ok
                  /\ \E i \in 1..Len(lrRes.v.entries) :
                        /\ InBlob(lrRes.v.entries[i])
                        /\ lrExt.v = SubSeq(lrRes.v.blobData,
                                            lrRes.v.entries[i].offset - 56 + 1,
                                            lrRes.v.entries[i].offset - 56
                                                + lrRes.v.entries[i].size)

\* C27: read_vslib ends with ok or with an error value of the taxonomy for
\* every value of tocOffset, tocSize, entryCount and the keywords fields,
\* never with an exception, and the TOC records of a library it returns were
\* read from within [tocOffset, tocOffset + tocSize).
C27_ReadIsTotal ==
    LET tocSize == SubSeq(lrFile, 33, 40)
    IN  lrpc \in {"read", "extracted"}
            => /\ lrRes.ok \/ lrRes.code \in {"eIO", "eDeserializeError"}
               /\ lrRes.ok
                    => /\ SubSeq(tocSize, 4, 8) = <<0, 0, 0, 0, 0>>
                       /\ Len(lrRes.v.entries) * 32 <= FromLE(SubSeq(tocSize, 1, 3))

====
